---------------------------- MODULE Spec2Model ----------------------------
(***************************************************************************)
(* Verification model of vscode-ibmi (Code for IBM i).                     *)
(*                                                                         *)
(*   Part I   connection lifecycle: disconnect() and onDisconnected()      *)
(*            (src/src/instantiate.ts)                                      *)
(*   Part II  ConfigFile<T>: loadFromServer(), get(), reset(), getState()  *)
(*            (src/src/api/config/configFile.ts)                            *)
(*                                                                         *)
(*   Part III resource URIs: areEquivalentUris(), findExistingDocument(),  *)
(*            findExistingDocumentUri() (src/unnamed/part_001)              *)
(*   Part IV  debug bootstrap: debug.setup.remote, debug.setup.local,      *)
(*            debug.start (src/unnamed/part_000)                            *)
(*                                                                         *)
(*   Part V   withContext() (src/unnamed/part_001)                         *)
(*                                                                         *)
(*   Part VI  the command code-for-ibmi.runAction (src/src/instantiate.ts) *)
(*                                                                         *)
(*   Part VII the colour checker (src/src/languages/colour.ts)             *)
(*                                                                         *)
(*   Part VIII the handler of '/connect' URIs (src/src/uri/index.ts)       *)
(*                                                                         *)
(* Each part has its own specification (SpecDisconnect, SpecConfig,        *)
(* SpecUri, SpecDebug, SpecContext, SpecAction, SpecColour, SpecHandler)   *)
(* over the same variables; the variables of the other parts stay          *)
(* unchanged.                                                              *)
(***************************************************************************)
EXTENDS Integers, Sequences, FiniteSets, TLC

(***************************************************************************)
(* Bounds of the model.                                                    *)
(***************************************************************************)
\* number of text documents the editor can hold
MaxDocs == 2
\* number of tab groups of the window
MaxGroups == 2
\* number of documents open at a time in Part III
MaxOpen == 2
\* number of overlapping withContext() calls in Part V
MaxCallers == 3
\* length of the content of a document in Part VII
MaxChars == 2
\* number of saved connections in Part VIII
MaxSaved == 2

VARIABLES
  \* ---- Part I: editor and connection ----
  documents,      \* vscode.workspace.textDocuments: document objects by slot
  connected,      \* instance.getConnection() is defined
  pc,             \* position of the running disconnect() call
  snapshot,       \* the array vscode.workspace.textDocuments the loop iterates
  idx,            \* loop position in that array
  doDisconnect,   \* local variable of disconnect()
  promptCount,    \* prompts shown by the running/last disconnect() call
  promptedDoc,    \* slot of the document the prompt was shown for (0: none)
  firstDirty,     \* first dirty remote-backed document when disconnect() was called (0: none)
  answer,         \* what the user answered to the prompt of this call
  endCalls,       \* connection.end() calls made by the running/last call
  returned,       \* value the last disconnect() call returned
  closeReport,    \* what the last onDisconnected() closed and left open
  \* ---- Part II: ConfigFile ----
  state,          \* this.state : LoadResult
  serverData,     \* this.serverData
  hasServerFile,  \* public field
  mergeArrays,    \* public field
  hasValidator,   \* validateAndCleanInPlace is supplied
  serverFile,     \* body of /etc/.vscode/<id>.json on the server
  workspaceFile,  \* body of .vscode/<id>.json in the workspace
  getPc,          \* position of the running get() call
  getFolder,      \* the running get() was given a workspace folder
  workspaceConfig,\* local variable of get()
  getEntry,       \* this.serverData, the last good load and the end of the last
                  \* loadFromServer() ("running" if one is in flight) when get() was entered;
                  \* whether a loadFromServer() has been running during this get() and
                  \* whether one has assigned this.serverData during it
  getResult,      \* outcome of the last get() call
  loadPc,         \* position of the running loadFromServer() call
  lastLoad,       \* how the last loadFromServer() call ended
  goodLoad,       \* server document of the last successful load since reset()
  sinceReset,     \* reset() ran and no loadFromServer() has loaded the server copy since
  \* ---- Part III: resource URIs ----
  uriDocuments,   \* the uri of each document of vscode.workspace.textDocuments, in order
  lastOpen,       \* how the last open request was resolved
  \* ---- Part IV: debug bootstrap ----
  debugEnv,       \* instance.connection, its remote feature startDebugService.sh,
                  \* the certificates on the server and the local certificate
  contexts,       \* the context keys of the debug module, as set by setContext
  debugCmd,       \* the command whose handler is running
  debugStep,      \* position of the running handler
  force,          \* argument of the running debug.setup.local
  commandQueue,   \* commands executed by executeCommand that have not started yet
  flow,           \* what the running flow has done so far
  \* ---- Part V: withContext ----
  activeContexts, \* the map activeContexts: its entry for the one context, if any
  contextValue,   \* the context value as set by setContext
  callerPc,       \* position of each caller's withContext() call
  unsetters,      \* callers whose call issued setContext(context, undefined)
  lastReturned,   \* caller whose call returned last (0: none)
  thrown,         \* callers whose task threw
  \* ---- Part VI: runAction ----
  activeTextEditor, \* vscode.window.activeTextEditor and its document
  config,         \* instance.getConfig()
  storedAutoSave, \* autoSaveBeforeAction in the stored connection settings
  runPc,          \* position of the running runAction handler
  run,            \* what the running handler has done so far
  \* ---- Part VII: colour checker ----
  colourDocument, \* the document of the onDidOpenTextDocument event
  colourConfig,   \* instance.getConfig() as the colour checker sees it
  colourPc,       \* position of the running handler of onDidOpenTextDocument
  check,          \* what the running handler found and did
  \* ---- Part VIII: '/connect' URI handler ----
  connections,    \* the setting `connections`: the names of the saved connections
  uriConnection,  \* instance.getConnection() is defined
  handlePc,       \* position of the running handleUri
  request         \* what the running handleUri was asked and did

discVars == <<documents, connected, pc, snapshot, idx, doDisconnect, promptCount,
              promptedDoc, firstDirty, answer, endCalls, returned, closeReport>>
cfgVars == <<state, serverData, hasServerFile, mergeArrays, hasValidator,
             serverFile, workspaceFile, getPc, getFolder, workspaceConfig,
             getEntry, getResult, loadPc, lastLoad, goodLoad, sinceReset>>
uriVars == <<uriDocuments, lastOpen>>
debugVars == <<debugEnv, contexts, debugCmd, debugStep, force, commandQueue, flow>>
contextVars == <<activeContexts, contextValue, callerPc, unsetters, lastReturned,
                 thrown>>
actionVars == <<activeTextEditor, config, storedAutoSave, runPc, run>>
colourVars == <<colourDocument, colourConfig, colourPc, check>>
handlerVars == <<connections, uriConnection, handlePc, request>>
vars == <<discVars, cfgVars, uriVars, debugVars, contextVars,
          actionVars, colourVars, handlerVars>>
\* the variables outside each part
outsideDisc ==
  <<cfgVars, uriVars, debugVars, contextVars, actionVars,
    colourVars, handlerVars>>
outsideCfg ==
  <<discVars, uriVars, debugVars, contextVars, actionVars,
    colourVars, handlerVars>>
outsideUri ==
  <<discVars, cfgVars, debugVars, contextVars, actionVars,
    colourVars, handlerVars>>
outsideDebug ==
  <<discVars, cfgVars, uriVars, contextVars, actionVars,
    colourVars, handlerVars>>
outsideContext ==
  <<discVars, cfgVars, uriVars, debugVars, actionVars,
    colourVars, handlerVars>>
outsideAction ==
  <<discVars, cfgVars, uriVars, debugVars, contextVars,
    colourVars, handlerVars>>
outsideColour ==
  <<discVars, cfgVars, uriVars, debugVars, contextVars,
    actionVars, handlerVars>>
outsideHandler ==
  <<discVars, cfgVars, uriVars, debugVars, contextVars,
    actionVars, colourVars>>

(***************************************************************************)
(*                    Part I: disconnect / onDisconnected                  *)
(***************************************************************************)
Slots == 1..MaxDocs
Groups == 1..MaxGroups
\* the schemes checked by disconnect() and onDisconnected()
RemoteSchemes == {"member", "streamfile", "object"}
Schemes == RemoteSchemes \cup {"file"}
\* tab.input is a vscode.TabInputText or something else (diff, custom, ...)
TabInputs == {"text", "other"}
DisconnectAnyway == "Disconnect anyway"
Dismissed == "undefined"

\* a document object that is closed (not listed in textDocuments any more)
ClosedDocument ==
  [scheme |-> "file", isDirty |-> FALSE, isClosed |-> TRUE, group |-> 0, input |-> "text"]

\* the documents currently listed by vscode.workspace.textDocuments
textDocuments == {i \in Slots : ~documents[i].isClosed}

\* a tab group and its tabs: every open document i is shown by one tab i
GroupTabs(docs, g) == {i \in Slots : ~docs[i].isClosed /\ docs[i].group = g}
tabGroups == {g \in Groups : GroupTabs(documents, g) # {}}

\* condition of lines 65-67 for one document of the loop
\* (mutant: the test of doDisconnect on line 67 is lost)
NeedsPromptEveryTime(doc, dd) ==
  /\ ~doc.isClosed
  /\ doc.scheme \in RemoteSchemes
  /\ doc.isDirty
NeedsPrompt(doc, dd) ==
  /\ ~doc.isClosed
  /\ doc.scheme \in RemoteSchemes
  /\ doc.isDirty
  /\ dd

InitDisconnect ==
  /\ documents = [i \in Slots |-> ClosedDocument]
  /\ connected = FALSE
  /\ pc = "idle"
  /\ snapshot = {}
  /\ idx = 1
  /\ doDisconnect = TRUE
  /\ promptCount = 0
  /\ promptedDoc = 0
  /\ firstDirty = 0
  /\ answer = "none"
  /\ endCalls = 0
  /\ returned = "none"
  /\ closeReport = [ran |-> FALSE, closed |-> {}, left |-> {}]

callVars == <<snapshot, idx, doDisconnect, promptCount, promptedDoc, firstDirty, answer,
              endCalls, returned>>

\* ---- the editor and the user: documents are opened, edited, saved, closed
EditorFree == pc \in {"idle", "prompt"}

\* the input of a tab is looked at for the documents of the remote schemes
\* only (lines 611-613): local files are opened in text tabs
OpenDocument(i, s, g, inp) ==
  /\ pc = "idle"
  /\ documents[i].isClosed
  /\ s \notin RemoteSchemes => inp = "text"
  /\ documents' = [documents EXCEPT ![i] =
        [scheme |-> s, isDirty |-> FALSE, isClosed |-> FALSE, group |-> g,
         input |-> inp]]
  /\ UNCHANGED <<outsideDisc, connected, pc, callVars, closeReport>>

EditDocument(i) ==
  /\ EditorFree
  /\ ~documents[i].isClosed
  /\ ~documents[i].isDirty
  /\ documents' = [documents EXCEPT ![i].isDirty = TRUE]
  /\ UNCHANGED <<outsideDisc, connected, pc, callVars, closeReport>>

SaveDocument(i) ==
  /\ EditorFree
  /\ ~documents[i].isClosed
  /\ documents[i].isDirty
  /\ documents' = [documents EXCEPT ![i].isDirty = FALSE]
  /\ UNCHANGED <<outsideDisc, connected, pc, callVars, closeReport>>

CloseDocument(i) ==
  /\ EditorFree
  /\ ~documents[i].isClosed
  /\ documents' = [documents EXCEPT ![i] = ClosedDocument]
  /\ UNCHANGED <<outsideDisc, connected, pc, callVars, closeReport>>

\* a connection is established (the `connected` event of line 559)
Connect ==
  /\ pc = "idle"
  /\ ~connected
  /\ connected' = TRUE
  /\ UNCHANGED <<outsideDisc, documents, pc, callVars, closeReport>>


\* ---- disconnect(), instantiate.ts lines 60-87
Min(S) == CHOOSE x \in S : \A y \in S : x <= y

\* the loop of lines 63-77 runs without suspending up to the next document that
\* needs the prompt: its slot, or 0 when the loop runs to its end
FirstPrompt(docs, snap, from, dd) ==
  LET C == {j \in snap : j >= from /\ NeedsPrompt(docs[j], dd)}
  IN IF C = {} THEN 0 ELSE Min(C)

\* vscode.window.showTextDocument(document): the tab of the document is
\* revealed; every open document of the model already has its tab
ShowTextDocument(docs, j) == docs

\* line 68: a truthy answer leaves the loop (break)
PromptBreaks(ans) == ans = DisconnectAnyway

\* lines 69-73: doDisconnect after the answer (mutant: the else branch is lost)
DoDisconnectAfterKept(ans) == TRUE
DoDisconnectAfter(ans) == IF PromptBreaks(ans) THEN TRUE ELSE FALSE

\* connection.end(): the connection is torn down and `disconnected` is fired
ConnectionEnd(calls) ==
  /\ connected' = FALSE
  /\ endCalls' = calls + 1

\* (mutant: the test of doDisconnect on line 79 is lost)
AfterLoopAlwaysEnds(dd, calls) ==
  IF connected
    THEN /\ ConnectionEnd(calls)
         /\ pc' = "disconnected"
         /\ returned' = "none"
    ELSE /\ pc' = "returned"
         /\ returned' = (IF dd THEN "true" ELSE "false")
         /\ connected' = connected
         /\ endCalls' = calls
\* lines 79-86 after the loop: call connection.end() and await it, or return
AfterLoop(dd, calls) ==
  IF dd /\ connected
    THEN /\ ConnectionEnd(calls)
         /\ pc' = "disconnected"
         /\ returned' = "none"
    ELSE /\ pc' = "returned"
         /\ returned' = (IF dd THEN "true" ELSE "false")
         /\ connected' = connected
         /\ endCalls' = calls

\* the first dirty remote-backed document listed by textDocuments (0: none)
FirstDirtyRemote(docs) ==
  LET D == {i \in Slots : /\ ~docs[i].isClosed
                          /\ docs[i].scheme \in RemoteSchemes
                          /\ docs[i].isDirty}
  IN IF D = {} THEN 0 ELSE Min(D)

\* run the loop of lines 63-77 over `snap` from slot `from` with
\* doDisconnect = dd, after `cnt` prompts, up to the next await or the return
RunLoop(snap, from, dd, cnt, prev, calls) ==
  LET j == FirstPrompt(documents, snap, from, dd) IN
  /\ doDisconnect' = dd
  /\ IF j # 0
       THEN /\ pc' = "prompt"
            /\ idx' = j
            /\ promptCount' = cnt + 1
            /\ promptedDoc' = j
            /\ documents' = ShowTextDocument(documents, j)
            /\ returned' = "none"
            /\ connected' = connected
            /\ endCalls' = calls
       ELSE /\ idx' = MaxDocs + 1
            /\ promptCount' = cnt
            /\ promptedDoc' = prev
            /\ AfterLoop(dd, calls)
            /\ UNCHANGED documents

\* the command code-for-ibmi.disconnect, lines 98-104, calling disconnect()
DisconnectCommand ==
  /\ pc = "idle"
  /\ IF connected
       THEN /\ snapshot' = textDocuments
            /\ firstDirty' = FirstDirtyRemote(documents)
            /\ answer' = "none"
            /\ closeReport' = [ran |-> FALSE, closed |-> {}, left |-> {}]
            /\ RunLoop(textDocuments, 1, TRUE, 0, 0, 0)
            /\ UNCHANGED outsideDisc
       ELSE \* line 102: only the error message is shown
            UNCHANGED vars

\* the user answers the prompt of line 68 (or dismisses it)
PromptAnswer(ans) ==
  /\ pc = "prompt"
  /\ answer' = (IF answer = "none" THEN ans ELSE answer)
  /\ IF PromptBreaks(ans)
       THEN /\ doDisconnect' = doDisconnect
            /\ idx' = MaxDocs + 1
            /\ AfterLoop(doDisconnect, endCalls)
            /\ UNCHANGED <<promptCount, promptedDoc, documents>>
       ELSE RunLoop(snapshot, idx + 1, DoDisconnectAfter(ans), promptCount, promptedDoc, endCalls)
  /\ UNCHANGED <<outsideDisc, snapshot, firstDirty, closeReport>>

\* ---- onDisconnected(), instantiate.ts lines 605-627
Tab(docs, i) ==
  [slot |-> i, scheme |-> docs[i].scheme, isDirty |-> docs[i].isDirty,
   input |-> docs[i].input, group |-> docs[i].group]

\* line 608: the groups that pass the filter (mutant: the filter is lost)
GroupsToCloseUnfiltered(docs) == {g \in Groups : GroupTabs(docs, g) # {}}
GroupsToClose(docs) ==
  {g \in Groups : GroupTabs(docs, g) # {} /\
                  ~\E i \in GroupTabs(docs, g) : docs[i].isDirty}

\* lines 611-615: the tabs of a kept group that are closed
TabIsClosed(doc) ==
  /\ doc.input = "text"
  /\ doc.scheme \in RemoteSchemes

ClosedTabs(docs) ==
  {i \in Slots : /\ ~docs[i].isClosed
                 /\ docs[i].group \in GroupsToClose(docs)
                 /\ TabIsClosed(docs[i])}

OnDisconnected ==
  /\ pc = "disconnected"
  /\ LET C == ClosedTabs(documents) IN
     /\ documents' = [i \in Slots |->
           IF i \in C THEN ClosedDocument ELSE documents[i]]
     /\ closeReport' =
           [ran |-> TRUE,
            closed |-> {Tab(documents, i) : i \in C},
            left |-> {Tab(documents, i) :
                        i \in {k \in Slots : ~documents[k].isClosed} \ C}]
  /\ pc' = "ended"
  /\ UNCHANGED <<outsideDisc, connected, callVars>>

\* line 86 after the awaited end(): return doDisconnect
DisconnectReturn ==
  /\ pc = "ended"
  /\ pc' = "returned"
  /\ returned' = IF doDisconnect THEN "true" ELSE "false"
  /\ UNCHANGED <<outsideDisc, documents, connected, snapshot, idx, doDisconnect, promptCount,
                 promptedDoc, firstDirty, answer, endCalls, closeReport>>

\* the promise of disconnect() is settled: the frame of the call is dropped
CallCompleted ==
  /\ pc = "returned"
  /\ pc' = "idle"
  /\ snapshot' = {}
  /\ idx' = 1
  /\ doDisconnect' = TRUE
  /\ promptCount' = 0
  /\ promptedDoc' = 0
  /\ firstDirty' = 0
  /\ answer' = "none"
  /\ endCalls' = 0
  /\ returned' = "none"
  /\ closeReport' = [ran |-> FALSE, closed |-> {}, left |-> {}]
  /\ UNCHANGED <<outsideDisc, documents, connected>>

NextDisconnect ==
  \/ \E i \in Slots, s \in Schemes, g \in Groups, inp \in TabInputs :
        OpenDocument(i, s, g, inp)
  \/ \E i \in Slots : EditDocument(i)
  \/ \E i \in Slots : SaveDocument(i)
  \/ \E i \in Slots : CloseDocument(i)
  \/ Connect
  \/ DisconnectCommand
  \/ \E ans \in {DisconnectAnyway, Dismissed} : PromptAnswer(ans)
  \/ OnDisconnected
  \/ DisconnectReturn
  \/ CallCompleted


(***************************************************************************)
(*                          Part II: ConfigFile                            *)
(***************************************************************************)
\* ---- JavaScript values: parsed JSON documents
\* an entry of an object: key, and an array value or a scalar one
ArrayEntry(key, its) == [k |-> key, isArray |-> TRUE, items |-> its]
ScalarEntry(key, v) == [k |-> key, isArray |-> FALSE, items |-> <<v>>]
Undefined == [kind |-> "undefined", entries |-> <<>>, items |-> <<>>, clean |-> FALSE]
JsonNull == [kind |-> "null", entries |-> <<>>, items |-> <<>>, clean |-> FALSE]
Obj(es) == [kind |-> "object", entries |-> es, items |-> <<>>, clean |-> FALSE]
Arr(its) == [kind |-> "array", entries |-> <<>>, items |-> its, clean |-> FALSE]

\* truthiness as tested by `if (this.serverData)`, `&&` and `||`
Truthy(d) == d.kind \in {"object", "array"}

\* the documents the server file and the workspace file can hold; the array
\* items of server documents differ from those of workspace documents
ServerDocs ==
  { Obj(<<ArrayEntry("a", <<1>>), ArrayEntry("b", <<2>>)>>),
    JsonNull }
WorkspaceDocs ==
  { Obj(<<ArrayEntry("a", <<3>>), ArrayEntry("b", <<4>>)>>),
    Obj(<<ScalarEntry("a", 5), ArrayEntry("b", <<4>>)>>),
    JsonNull }
ServerItems == {1, 2}

\* ---- files: absent, not JSON, or the JSON text of a document
NoFile == [file |-> "none", doc |-> Undefined]
Garbage == [file |-> "garbage", doc |-> Undefined]
Json(d) == [file |-> "json", doc |-> d]
ServerBodies == {NoFile, Garbage} \cup {Json(d) : d \in ServerDocs}
WorkspaceBodies == {NoFile, Garbage} \cup {Json(d) : d \in WorkspaceDocs}

\* JSON.parse(content.toString()): throws unless the text is JSON
ParseThrows(body) == body.file # "json"
JSONParse(body) == body.doc

\* ---- validateAndCleanInPlace, supplied by the owner of the ConfigFile:
\* it reads the loaded config, so it throws on undefined and null; otherwise
\* it cleans the value in place and returns it
ValidatorThrows(d) == d.kind \in {"undefined", "null"}
Clean(d) == [d EXCEPT !.clean = TRUE]

\* ---- property access resultingConfig[key] for the keys of the model
HasArrayAt(d, key) ==
  /\ d.kind = "object"
  /\ \E n \in 1..Len(d.entries) : d.entries[n].k = key /\ d.entries[n].isArray
ItemsAt(d, key) ==
  LET n == CHOOSE n \in 1..Len(d.entries) : d.entries[n].k = key
  IN d.entries[n].items

InitConfig ==
  /\ state = [server |-> "not_loaded", workspace |-> "not_loaded"]
  /\ serverData = Undefined
  /\ hasServerFile = FALSE
  /\ mergeArrays = FALSE
  /\ hasValidator = FALSE
  /\ serverFile = NoFile
  /\ workspaceFile = NoFile
  /\ getPc = "idle"
  /\ getFolder = FALSE
  /\ workspaceConfig = Undefined
  /\ getEntry = [data |-> Undefined, good |-> Undefined, load |-> "none",
                 overlap |-> FALSE, assigned |-> FALSE]
  /\ getResult = [status |-> "none", value |-> Undefined, searched |-> FALSE]
  /\ loadPc = "idle"
  /\ lastLoad = "none"
  /\ goodLoad = Undefined
  /\ sinceReset = FALSE

\* other calls run only between the steps of a call, not at its return
Observing == getPc = "returned" \/ loadPc = "returned"
CallsIdle == getPc = "idle" /\ loadPc = "idle"

getLocals == <<getPc, getFolder, workspaceConfig, getEntry, getResult>>
fields == <<hasServerFile, mergeArrays, hasValidator>>
files == <<serverFile, workspaceFile>>

\* ---- the owner sets the public fields of lines 23-25 before the first use
Configure(h, m, v) ==
  /\ CallsIdle
  /\ lastLoad = "none"
  /\ state = [server |-> "not_loaded", workspace |-> "not_loaded"]
  /\ <<h, m, v>> # <<hasServerFile, mergeArrays, hasValidator>>
  /\ hasServerFile' = h
  /\ mergeArrays' = m
  /\ hasValidator' = v
  /\ UNCHANGED <<outsideCfg, state, serverData, files, getLocals, loadPc, lastLoad,
                 goodLoad, sinceReset>>

\* ---- the files change on the server and in the workspace
SetServerFile(b) ==
  /\ CallsIdle
  /\ b # serverFile
  /\ serverFile' = b
  /\ UNCHANGED <<outsideCfg, state, serverData, fields, workspaceFile, getLocals,
                 loadPc, lastLoad, goodLoad, sinceReset>>

SetWorkspaceFile(b) ==
  /\ CallsIdle
  /\ b # workspaceFile
  /\ workspaceFile' = b
  /\ UNCHANGED <<outsideCfg, state, serverData, fields, serverFile, getLocals,
                 loadPc, lastLoad, goodLoad, sinceReset>>

\* a get() call is suspended on findFiles (line 67) or on readFile (line 72)
GetSuspended == getPc \in {"findFiles", "readFile"}
getOthers == <<getPc, getFolder, workspaceConfig, getResult>>

\* ---- loadFromServer(), configFile.ts lines 33-57
\* lines 50-55 with serverConfig = cfg: validate, then assign this.serverData
LoadFinish(cfg, outcome) ==
  IF hasValidator /\ ValidatorThrows(cfg)
    THEN /\ lastLoad' = "validation_error"
         /\ UNCHANGED <<serverData, goodLoad, sinceReset, getEntry>>
    ELSE LET val == IF hasValidator THEN Clean(cfg) ELSE cfg IN
         /\ serverData' = val
         /\ getEntry' = [getEntry EXCEPT !.assigned = @ \/ GetSuspended]
         /\ lastLoad' = outcome
         /\ goodLoad' = (IF outcome = "ok" /\ Truthy(val) THEN val ELSE goodLoad)
         /\ sinceReset' = (IF outcome = "ok" THEN FALSE ELSE sinceReset)

\* lines 34-39: up to the await of testStreamFile
LoadCall ==
  /\ ~Observing
  /\ loadPc = "idle"
  /\ IF hasServerFile
       THEN /\ state' = [state EXCEPT !.server = "no_exist"]
            /\ loadPc' = "probe"
            /\ UNCHANGED lastLoad
       ELSE /\ loadPc' = "returned"
            /\ lastLoad' = "no_server_file"
            /\ UNCHANGED state
  /\ getEntry' = [getEntry EXCEPT !.overlap = @ \/ (hasServerFile /\ GetSuspended)]
  /\ UNCHANGED <<outsideCfg, serverData, fields, files, getOthers, goodLoad, sinceReset>>

\* lines 39-41: testStreamFile answers (or fails with a transport error)
LoadProbe(fails) ==
  /\ ~Observing
  /\ loadPc = "probe"
  /\ IF fails
       THEN /\ loadPc' = "returned"
            /\ lastLoad' = "transport_error"
            /\ UNCHANGED <<serverData, goodLoad, sinceReset, getEntry>>
       ELSE IF serverFile.file # "none"
         THEN /\ loadPc' = "download"
              /\ UNCHANGED <<serverData, lastLoad, goodLoad, sinceReset, getEntry>>
         ELSE /\ loadPc' = "returned"
              /\ LoadFinish(Undefined, "no_exist")
  /\ UNCHANGED <<outsideCfg, state, fields, files, getOthers>>

\* lines 41-55: downloadStreamfileRaw answers (or fails), the body is parsed
LoadDownload(fails) ==
  /\ ~Observing
  /\ loadPc = "download"
  /\ loadPc' = "returned"
  /\ IF fails
       THEN /\ lastLoad' = "transport_error"
            /\ UNCHANGED <<state, serverData, goodLoad, sinceReset, getEntry>>
       ELSE IF ParseThrows(serverFile)
         THEN /\ state' = [state EXCEPT !.server = "failed_to_parse"]
              /\ LoadFinish(Undefined, "failed_to_parse")
         ELSE /\ state' = [state EXCEPT !.server = "ok"]
              /\ LoadFinish(JSONParse(serverFile), "ok")
  /\ UNCHANGED <<outsideCfg, fields, files, getOthers>>

\* the promise of loadFromServer() is settled
LoadCompleted ==
  /\ loadPc = "returned"
  /\ loadPc' = "idle"
  /\ UNCHANGED <<outsideCfg, state, serverData, fields, files, getLocals, lastLoad,
                 goodLoad, sinceReset>>

\* ---- get(), configFile.ts lines 59-108
\* line 60: the cached server data is returned at once
\* (mutant: the early return is lost)
ReturnsCachedNever(sd) == FALSE
ReturnsCached(sd) == Truthy(sd)

\* lines 87-94: the keys of the workspace document are visited in order; on a
\* key that is an array in resultingConfig and in the server data,
\* resultingConfig is replaced by the concatenation
\* (mutant: every key is tested against the workspace document, so that the
\* last matching key decides)
RECURSIVE MergeFromLastWins(_, _, _, _)
MergeFromLastWins(rc, ws, sd, n) ==
  IF n > Len(ws.entries)
    THEN rc
    ELSE LET key == ws.entries[n].k IN
         MergeFromLastWins(IF HasArrayAt(ws, key) /\ HasArrayAt(sd, key)
                             THEN Arr(ItemsAt(ws, key) \o ItemsAt(sd, key))
                             ELSE rc,
                           ws, sd, n + 1)

RECURSIVE MergeFrom(_, _, _, _)
MergeFrom(rc, ws, sd, n) ==
  IF n > Len(ws.entries)
    THEN rc
    ELSE LET key == ws.entries[n].k IN
         MergeFrom(IF HasArrayAt(rc, key) /\ HasArrayAt(sd, key)
                     THEN Arr(ItemsAt(ws, key) \o ItemsAt(sd, key))
                     ELSE rc,
                   ws, sd, n + 1)

\* lines 86-99: the resulting raw config
Resulting(ws, sd) ==
  IF mergeArrays /\ Truthy(ws) /\ Truthy(sd)
    THEN MergeFrom(ws, ws, sd, 1)
    ELSE IF Truthy(ws) THEN ws ELSE sd

\* (mutant: the validator is not applied to the resulting config)
GetTailUnvalidated(ws, sd) ==
  IF ws = Undefined /\ sd = Undefined
    THEN [status |-> "value", value |-> Undefined]
    ELSE [status |-> "value", value |-> Resulting(ws, sd)]

\* lines 82-107 with workspaceConfig = ws and this.serverData = sd
GetTail(ws, sd) ==
  IF ws = Undefined /\ sd = Undefined
    THEN [status |-> "value", value |-> Undefined]
    ELSE LET raw == Resulting(ws, sd) IN
         IF hasValidator
           THEN IF ValidatorThrows(raw)
                  THEN [status |-> "threw", value |-> Undefined]
                  ELSE [status |-> "value", value |-> Clean(raw)]
           ELSE [status |-> "value", value |-> raw]

GetFinish(ws, searched) ==
  /\ getPc' = "returned"
  /\ workspaceConfig' = ws
  /\ getResult' = [status |-> GetTail(ws, serverData).status,
                   value |-> GetTail(ws, serverData).value,
                   searched |-> searched]

\* lines 59-67: up to the await of findFiles, or to the return
GetCall(folder) ==
  /\ ~Observing
  /\ getPc = "idle"
  /\ getEntry' = [data |-> serverData, good |-> goodLoad,
                  load |-> IF loadPc = "idle" THEN lastLoad ELSE "running",
                  overlap |-> loadPc # "idle", assigned |-> FALSE]
  /\ getFolder' = folder
  /\ IF ReturnsCached(serverData)
       THEN /\ getPc' = "returned"
            /\ getResult' = [status |-> "value", value |-> serverData, searched |-> FALSE]
            /\ UNCHANGED workspaceConfig
       ELSE IF folder
         THEN /\ getPc' = "findFiles"
              /\ UNCHANGED <<workspaceConfig, getResult>>
         ELSE GetFinish(Undefined, FALSE)
  /\ UNCHANGED <<outsideCfg, state, serverData, fields, files, loadPc, lastLoad,
                 goodLoad, sinceReset>>

\* lines 67-72: findFiles answers with at most one file
GetFindFiles ==
  /\ ~Observing
  /\ getPc = "findFiles"
  /\ state' = [state EXCEPT !.server = "no_exist"]
  /\ IF workspaceFile.file # "none"
       THEN /\ getPc' = "readFile"
            /\ UNCHANGED <<workspaceConfig, getResult>>
       ELSE GetFinish(Undefined, TRUE)
  /\ UNCHANGED <<outsideCfg, serverData, fields, files, getFolder, getEntry, loadPc,
                 lastLoad, goodLoad, sinceReset>>

\* line 77: the catch block of the workspace parse
\* (mutant: the failure is recorded in the workspace status)
WorkspaceParseFailedInWorkspace(st) == [st EXCEPT !.workspace = "failed_to_parse"]
WorkspaceParseFailed(st) == [st EXCEPT !.server = "failed_to_parse"]

\* lines 72-107: readFile answers, the body is parsed, the result is built
GetReadFile ==
  /\ ~Observing
  /\ getPc = "readFile"
  /\ IF ParseThrows(workspaceFile)
       THEN /\ state' = WorkspaceParseFailed(state)
            /\ GetFinish(Undefined, TRUE)
       ELSE /\ state' = [state EXCEPT !.workspace = "ok"]
            /\ GetFinish(JSONParse(workspaceFile), TRUE)
  /\ UNCHANGED <<outsideCfg, serverData, fields, files, getFolder, getEntry, loadPc,
                 lastLoad, goodLoad, sinceReset>>

\* the promise of get() is settled: the frame of the call is dropped
GetCompleted ==
  /\ getPc = "returned"
  /\ getPc' = "idle"
  /\ getFolder' = FALSE
  /\ workspaceConfig' = Undefined
  /\ getEntry' = [data |-> Undefined, good |-> Undefined, load |-> "none",
                 overlap |-> FALSE, assigned |-> FALSE]
  /\ getResult' = [status |-> "none", value |-> Undefined, searched |-> FALSE]
  /\ UNCHANGED <<outsideCfg, state, serverData, fields, files, loadPc, lastLoad,
                 goodLoad, sinceReset>>

\* ---- reset(), configFile.ts lines 110-112 (mutant: the data is kept)
ResetKeepsData(sd) == sd
ResetData(sd) == Undefined

Reset ==
  /\ ~Observing
  /\ serverData' = ResetData(serverData)
  /\ goodLoad' = Undefined
  /\ sinceReset' = TRUE
  /\ UNCHANGED <<outsideCfg, state, fields, files, getLocals, loadPc, lastLoad>>

\* getState(), lines 114-116
getState == state

NextConfig ==
  \/ \E h \in BOOLEAN, m \in BOOLEAN, v \in BOOLEAN : Configure(h, m, v)
  \/ \E b \in ServerBodies : SetServerFile(b)
  \/ \E b \in WorkspaceBodies : SetWorkspaceFile(b)
  \/ LoadCall
  \/ \E fails \in BOOLEAN : LoadProbe(fails)
  \/ \E fails \in BOOLEAN : LoadDownload(fails)
  \/ LoadCompleted
  \/ \E folder \in BOOLEAN : GetCall(folder)
  \/ GetFindFiles
  \/ GetReadFile
  \/ GetCompleted
  \/ Reset

(***************************************************************************)
(*                        Part III: resource URIs                          *)
(***************************************************************************)
\* ---- strings with letter case: the lower-case form of the string and the
\* positions that hold an upper-case letter
Str(low, caps) == [low |-> low, caps |-> caps]
\* String.prototype.toLowerCase()
toLowerCase(str) == [str EXCEPT !.caps = {}]

\* ---- uri.path: the segments between the slashes, "/" + p[1] + "/" + p[2]
\* stream files under /QOpenSys/ (as written and in lower case) and under
\* /home/, members of a source file; the last segment in two letter cases
NameSegments == { Str("a.txt", {}), Str("a.txt", {1}) }
StreamfilePaths ==
  { <<Str("qopensys", {1, 2, 6}), n>> : n \in NameSegments }
    \cup { <<Str("qopensys", {}), Str("a.txt", {})>> }
    \cup { <<Str("home", {}), n>> : n \in NameSegments }
MemberPaths == { <<Str("lib", {}), n>> : n \in NameSegments }
UriPaths(scheme) == IF scheme = "streamfile" THEN StreamfilePaths ELSE MemberPaths
PathToLowerCase(path) == [n \in 1..Len(path) |-> toLowerCase(path[n])]

\* ---- vscode.Uri: scheme, path, query (the readonly flag) and fragment
UriSchemes == {"member", "streamfile", "object"}
UriFlags ==
  { [query |-> "", fragment |-> ""],
    [query |-> "readonly=true", fragment |-> ""],
    [query |-> "", fragment |-> "L1"] }
Uris ==
  UNION { { [scheme |-> scheme, path |-> path,
             query |-> f.query, fragment |-> f.fragment] :
              path \in UriPaths(scheme), f \in UriFlags } :
          scheme \in UriSchemes }

\* line 64: /^\/QOpenSys\//i.test(uri.path), a first segment that reads
\* QOpenSys in any letter case, followed by a slash
\* (mutant: no path is case sensitive)
IsCaseSensitiveNever(uri) == FALSE
IsCaseSensitive(uri) ==
  /\ uri.scheme = "streamfile"
  /\ Len(uri.path) >= 2
  /\ uri.path[1].low = "qopensys"

\* lines 61-66: the string scheme + ":" + path, as its two parts
\* (mutant: the query is kept in the string)
uriStringWithQuery(uri) ==
  IF IsCaseSensitive(uri)
    THEN <<uri.scheme, uri.path, uri.query>>
    ELSE <<uri.scheme, PathToLowerCase(uri.path), uri.query>>
uriStringWithoutFragment(uri) ==
  IF IsCaseSensitive(uri)
    THEN <<uri.scheme, uri.path>>
    ELSE <<uri.scheme, PathToLowerCase(uri.path)>>

\* lines 34-36
areEquivalentUris(uriA, uriB) ==
  uriStringWithoutFragment(uriA) = uriStringWithoutFragment(uriB)

\* lines 47-51: Array.prototype.find gives the first document that matches,
\* here as its position in textDocuments (0: undefined)
\* (mutant: the uris are compared as they are)
findExistingDocumentExact(docs, uri) ==
  IF \E n \in 1..Len(docs) : docs[n] = uri
    THEN CHOOSE n \in 1..Len(docs) :
           /\ docs[n] = uri
           /\ \A k \in 1..(n - 1) : docs[k] # uri
    ELSE 0
findExistingDocument(docs, uri) ==
  LET baseUriString == uriStringWithoutFragment(uri)
      matches(n) == uriStringWithoutFragment(docs[n]) = baseUriString
  IN IF \E n \in 1..Len(docs) : matches(n)
       THEN CHOOSE n \in 1..Len(docs) :
              matches(n) /\ \A k \in 1..(n - 1) : ~matches(k)
       ELSE 0

\* lines 42-45: possibleDoc?.uri || uri
\* (mutant: the requested uri is returned whatever is open)
findExistingDocumentUriFresh(docs, uri) == uri
findExistingDocumentUri(docs, uri) ==
  LET possibleDoc == findExistingDocument(docs, uri)
  IN IF possibleDoc # 0 THEN docs[possibleDoc] ELSE uri

\* vscode.workspace.openTextDocument(uri): the editor keeps one document per
\* uri and adds a document for a uri it does not hold yet
openTextDocument(docs, uri) ==
  IF \E n \in 1..Len(docs) : docs[n] = uri THEN docs ELSE Append(docs, uri)

\* how the uri an open request asked for relates to the uri it opened
Relation(asked, opened) ==
  IF asked = opened THEN "same"
  ELSE IF asked.scheme = opened.scheme /\ asked.path = opened.path THEN "flags"
  ELSE "case"

InitUri ==
  /\ uriDocuments = <<>>
  /\ lastOpen = [kind |-> "none", relation |-> "none"]

\* ---- an open request: the uri is resolved by findExistingDocumentUri and
\* the resolved uri is opened
OpenRequest(uri) ==
  LET resolved == findExistingDocumentUri(uriDocuments, uri)
      docs == openTextDocument(uriDocuments, resolved)
  IN /\ Len(docs) <= MaxOpen
     /\ uriDocuments' = docs
     /\ lastOpen' = [kind |-> IF docs = uriDocuments THEN "existing" ELSE "new",
                     relation |-> Relation(uri, resolved)]
     /\ UNCHANGED outsideUri

\* ---- the document at position n is closed and leaves textDocuments
CloseUriDocument(n) ==
  /\ n \in 1..Len(uriDocuments)
  /\ uriDocuments' = [k \in 1..(Len(uriDocuments) - 1) |->
                        IF k < n THEN uriDocuments[k] ELSE uriDocuments[k + 1]]
  /\ lastOpen' = [kind |-> "none", relation |-> "none"]
  /\ UNCHANGED outsideUri

NextUri ==
  \/ \E uri \in Uris : OpenRequest(uri)
  \/ \E n \in 1..MaxOpen : CloseUriDocument(n)

(***************************************************************************)
(*                       Part IV: debug bootstrap                          *)
(***************************************************************************)
ptfContext == "code-for-ibmi:debug.ptf"
remoteCertContext == "code-for-ibmi:debug.remote"
localCertContext == "code-for-ibmi:debug.local"
ContextKeys == {ptfContext, remoteCertContext, localCertContext}

DebugSetupRemote == "code-for-ibmi.debug.setup.remote"
DebugSetupLocal == "code-for-ibmi.debug.setup.local"
DebugStart == "code-for-ibmi.debug.start"
DebugActiveEditor == "code-for-ibmi.debug.activeEditor"
DebugCommands == {DebugSetupRemote, DebugSetupLocal, DebugStart, DebugActiveEditor}
\* the commands of the certificate bootstrap
BootstrapCommands == {DebugStart, DebugSetupRemote, DebugSetupLocal}

PtfMissing == "Debug PTF not installed."
NoConnection == "No connection to IBM i available."
ConsentPrompt == "Debug setup"
DownloadFailed == "Failed to download new local debug certificate"
NoLocalCertificate == "Local debug certificate does not exist."
WalkthroughOffer == "Looks like you have the debug PTF installed. Do you want to see the Walkthrough to set it up?"
PasswordPrompt == "Password for user profile ${connection!.currentUser} is required to debug."
\* e.message || e of the error thrown by certificates.setup
SetupError == "e.message"

\* what one flow (a command run by the user and the commands it triggers) did:
\* the handlers entered, the messages shown, the calls made into certificates
\* and server, what debug.setup.local found and did, the keys it set, and what
\* debug.activeEditor was given and did
NoFlow ==
  [commands |-> <<>>, messages |-> <<>>, remoteProbes |-> 0, localProbes |-> 0,
   remoteExists |-> "none",
   localExists |-> "none", setupLocal |-> "none", consent |-> "none", setups |-> 0, setupFailed |-> FALSE,
   generated |-> FALSE, downloads |-> 0, downloadFailed |-> FALSE, startups |-> 0,
   contextsSet |-> {},
   editor |-> "unset", qualifiedPath |-> [library |-> "", object |-> ""],
   configured |-> FALSE, password |-> "unset", threw |-> FALSE, launches |-> 0]

InitDebug ==
  /\ debugEnv = [connection |-> FALSE, ptf |-> FALSE,
                 remoteCerts |-> FALSE, localCerts |-> FALSE]
  /\ contexts = [key \in ContextKeys |-> "unset"]
  /\ debugCmd = "none"
  /\ debugStep = "none"
  /\ force = FALSE
  /\ commandQueue = <<>>
  /\ flow = NoFlow

DebugIdle == debugCmd = "none" /\ commandQueue = <<>> /\ flow = NoFlow
FlowEnded == debugCmd = "none" /\ commandQueue = <<>> /\ flow # NoFlow

\* ---- the system and the local disk change between two flows; without a
\* connection there are no remote features and no remote certificates to see
SetDebugEnv(env) ==
  /\ DebugIdle
  /\ env # debugEnv
  /\ ~env.connection => (~env.ptf /\ ~env.remoteCerts)
  /\ debugEnv' = env
  /\ UNCHANGED <<outsideDebug, contexts, debugCmd, debugStep, force,
                 commandQueue, flow>>

\* vscode.commands.executeCommand(command, arg), not awaited
executeCommand(queue, command, arg) ==
  Append(queue, [command |-> command, force |-> arg])

\* (mutant: the key is switched, a key that is true becomes unset)
setContextSwitch(ctx, key) ==
  [ctx EXCEPT ![key] = IF @ = "true" THEN "unset" ELSE "true"]
\* vscode.commands.executeCommand(`setContext`, key, true)
setContext(ctx, key) == [ctx EXCEPT ![key] = "true"]

\* lines 78-81 (mutant: the remote feature is not looked at)
debugPTFInstalledAlways == debugEnv.connection
debugPTFInstalled == debugEnv.connection /\ debugEnv.ptf
\* certificates.checkRemoteExists(connection), certificates.checkLocalExists()
checkRemoteExists == debugEnv.remoteCerts
\* (mutant: the local certificate is not looked for)
checkLocalExistsAlways == TRUE
checkLocalExists == debugEnv.localCerts

\* ---- the user runs one of the three commands
UserCommand(command) ==
  /\ DebugIdle
  /\ commandQueue' = executeCommand(commandQueue, command, FALSE)
  /\ UNCHANGED <<outsideDebug, debugEnv, contexts, debugCmd, debugStep,
                 force, flow>>

\* ---- a command that was executed starts to run: its handler is entered
Dispatch ==
  /\ debugCmd = "none"
  /\ commandQueue # <<>>
  /\ debugCmd' = Head(commandQueue).command
  /\ force' = Head(commandQueue).force
  /\ debugStep' = "begin"
  /\ commandQueue' = Tail(commandQueue)
  /\ flow' = [flow EXCEPT !.commands = Append(@, Head(commandQueue).command)]
  /\ UNCHANGED <<outsideDebug, debugEnv, contexts>>

\* the handler returns
HandlerEnd ==
  /\ debugCmd' = "none"
  /\ debugStep' = "none"
  /\ force' = FALSE

showMessage(fl, text) == [fl EXCEPT !.messages = Append(@, text)]

\* ---- code-for-ibmi.debug.setup.remote, part_000 lines 103-143
\* line 124 is reached only if certificates.setup did not throw
\* (mutant: the certificates count as set up whether setup threw or not)
RemoteCertsOkAlways(fails) == TRUE
RemoteCertsOkAfterSetup(fails) == ~fails

\* line 134: the command debug.setup.remote executes when the certificates are ok
\* (mutant: it executes debug.start)
AfterRemoteSetupStart == DebugStart
AfterRemoteSetup == DebugSetupLocal

\* lines 132-135, with the locals remoteCertsOk and remoteCertsAreNew
SetupRemoteFinish(fl, remoteCertsOk, remoteCertsAreNew) ==
  /\ HandlerEnd
  /\ IF remoteCertsOk
       THEN /\ contexts' = setContext(contexts, remoteCertContext)
            /\ commandQueue' =
                 executeCommand(commandQueue, AfterRemoteSetup, remoteCertsAreNew)
            /\ flow' = [fl EXCEPT !.contextsSet = @ \cup {remoteCertContext}]
       ELSE /\ flow' = fl
            /\ UNCHANGED <<contexts, commandQueue>>

\* lines 104-119: up to the consent prompt, or to the end
SetupRemoteBegin ==
  /\ debugCmd = DebugSetupRemote
  /\ debugStep = "begin"
  /\ IF ~debugEnv.connection
       THEN /\ HandlerEnd
            /\ flow' = showMessage(flow, NoConnection)
            /\ UNCHANGED <<contexts, commandQueue>>
       ELSE IF ~debugPTFInstalled
         THEN /\ HandlerEnd
              /\ flow' = showMessage(flow, PtfMissing)
              /\ UNCHANGED <<contexts, commandQueue>>
         ELSE LET probed == [flow EXCEPT
                               !.remoteProbes = @ + 1,
                               !.remoteExists = IF checkRemoteExists THEN "yes" ELSE "no"]
              IN
              IF checkRemoteExists
                THEN SetupRemoteFinish(probed, TRUE, FALSE)
                ELSE /\ debugStep' = "consent"
                     /\ flow' = showMessage(probed, ConsentPrompt)
                     /\ UNCHANGED <<debugCmd, force, contexts, commandQueue>>
  /\ UNCHANGED <<outsideDebug, debugEnv>>

\* line 121: if (doSetup), for the answers `Continue` and undefined
\* (mutant: the answer is not looked at)
ConsentGivenAlways(doSetup) == TRUE
ConsentGiven(doSetup) == doSetup = "Continue"

\* lines 116-123: the answer to the consent prompt
SetupRemoteConsent(doSetup) ==
  /\ debugCmd = DebugSetupRemote
  /\ debugStep = "consent"
  /\ IF ConsentGiven(doSetup)
       THEN /\ debugStep' = "setup"
            /\ flow' = [flow EXCEPT !.consent = doSetup, !.setups = @ + 1]
            /\ UNCHANGED <<debugCmd, force, contexts, commandQueue>>
       ELSE SetupRemoteFinish([flow EXCEPT !.consent = doSetup], FALSE, FALSE)
  /\ UNCHANGED <<outsideDebug, debugEnv>>

\* lines 123-135: certificates.setup(connection) ends
SetupRemoteGenerated(fails) ==
  /\ debugCmd = DebugSetupRemote
  /\ debugStep = "setup"
  /\ IF fails
       THEN /\ SetupRemoteFinish(
                 showMessage([flow EXCEPT !.setupFailed = TRUE], SetupError),
                 RemoteCertsOkAfterSetup(fails), RemoteCertsOkAfterSetup(fails))
            /\ UNCHANGED debugEnv
       ELSE /\ SetupRemoteFinish([flow EXCEPT !.generated = TRUE],
                                 RemoteCertsOkAfterSetup(fails),
                                 RemoteCertsOkAfterSetup(fails))
            /\ debugEnv' = [debugEnv EXCEPT !.remoteCerts = TRUE]
  /\ UNCHANGED <<outsideDebug>>

\* ---- code-for-ibmi.debug.setup.local, part_000 lines 145-173
\* line 155: the download is skipped
\* (mutant: the force argument is not looked at)
SkipsDownloadIfLocal(localExists, frc) == localExists
SkipsDownload(localExists, frc) == localExists /\ ~frc

\* lines 146-159: up to the download, or to the end
SetupLocalBegin ==
  /\ debugCmd = DebugSetupLocal
  /\ debugStep = "begin"
  /\ IF ~debugEnv.connection
       THEN /\ HandlerEnd
            /\ UNCHANGED <<contexts, flow>>
       ELSE IF ~debugPTFInstalled
         THEN /\ HandlerEnd
              /\ flow' = showMessage(flow, PtfMissing)
              /\ UNCHANGED contexts
         ELSE LET probed == [flow EXCEPT
                               !.localProbes = @ + 1,
                               !.localExists = IF checkLocalExists THEN "yes" ELSE "no"]
              IN IF SkipsDownload(checkLocalExists, force)
                   THEN /\ HandlerEnd
                        /\ contexts' = setContext(contexts, localCertContext)
                        /\ flow' = [probed EXCEPT !.setupLocal = "skipped",
                                                  !.contextsSet = @ \cup {localCertContext}]
                   ELSE /\ debugStep' = "download"
                        /\ flow' = [probed EXCEPT !.setupLocal = "download",
                                                  !.downloads = @ + 1]
                        /\ UNCHANGED <<debugCmd, force, contexts>>
  /\ UNCHANGED <<outsideDebug, debugEnv, commandQueue>>

\* line 160 is reached only if certificates.downloadToLocal did not throw
\* (mutant: the certificate counts as present whether the download threw or not)
LocalCertsOkAlways(fails) == TRUE
LocalCertsOkAfterDownload(fails) == ~fails

\* lines 159-168: certificates.downloadToLocal(connection) ends
SetupLocalDownloaded(fails) ==
  LET downloaded ==
        IF fails
          THEN showMessage([flow EXCEPT !.downloadFailed = TRUE], DownloadFailed)
          ELSE flow
  IN /\ debugCmd = DebugSetupLocal
     /\ debugStep = "download"
     /\ HandlerEnd
     /\ debugEnv' = IF fails THEN debugEnv ELSE [debugEnv EXCEPT !.localCerts = TRUE]
     /\ IF LocalCertsOkAfterDownload(fails)
          THEN /\ contexts' = setContext(contexts, localCertContext)
               /\ flow' = [downloaded EXCEPT !.contextsSet = @ \cup {localCertContext}]
          ELSE /\ flow' = downloaded
               /\ UNCHANGED contexts
     /\ UNCHANGED <<outsideDebug, commandQueue>>

\* ---- code-for-ibmi.debug.start, part_000 lines 175-201
\* lines 176-195: up to the prompt about the local certificate, or to the end
StartBegin ==
  /\ debugCmd = DebugStart
  /\ debugStep = "begin"
  /\ IF ~debugEnv.connection
       THEN /\ HandlerEnd
            /\ UNCHANGED <<commandQueue, flow>>
       ELSE IF ~debugPTFInstalled
         THEN /\ HandlerEnd
              /\ flow' = showMessage(flow, PtfMissing)
              /\ UNCHANGED commandQueue
         ELSE LET remote == [flow EXCEPT !.remoteProbes = @ + 1]
                  local == [remote EXCEPT !.localProbes = @ + 1]
              IN IF ~checkRemoteExists
                   THEN /\ HandlerEnd
                        /\ commandQueue' =
                             executeCommand(commandQueue, DebugSetupRemote, FALSE)
                        /\ flow' = remote
                   ELSE IF checkLocalExists
                     THEN /\ HandlerEnd
                          /\ flow' = [local EXCEPT !.startups = @ + 1]
                          /\ UNCHANGED commandQueue
                     ELSE /\ debugStep' = "prompt"
                          /\ flow' = showMessage(local, NoLocalCertificate)
                          /\ UNCHANGED <<debugCmd, force, commandQueue>>
  /\ UNCHANGED <<outsideDebug, debugEnv, contexts>>

\* lines 188-191: the answer to `Local debug certificate does not exist.`
StartPrompt(localResult) ==
  /\ debugCmd = DebugStart
  /\ debugStep = "prompt"
  /\ HandlerEnd
  /\ commandQueue' = IF localResult = "Setup"
                       THEN executeCommand(commandQueue, DebugSetupLocal, FALSE)
                       ELSE commandQueue
  /\ UNCHANGED <<outsideDebug, debugEnv, contexts, flow>>

\* ---- initialise(), part_000 lines 204-224: the module is activated
\* line 215: if (localExists)
\* (mutant: the local certificate counts as present without a look at the probe)
InitialiseLocalOkAlways(localExists) == TRUE
InitialiseLocalOk(localExists) == localExists

Initialise ==
  LET entered == [flow EXCEPT !.commands = <<"initialise">>]
      remote == [entered EXCEPT !.remoteProbes = @ + 1,
                                !.contextsSet = @ \cup {ptfContext}]
      local == [remote EXCEPT
                  !.localProbes = @ + 1,
                  !.localExists = IF checkLocalExists THEN "yes" ELSE "no",
                  !.contextsSet = @ \cup {remoteCertContext}]
  IN /\ DebugIdle
     /\ IF ~(debugEnv.connection /\ debugEnv.ptf)
          THEN /\ flow' = entered
               /\ UNCHANGED <<contexts, commandQueue>>
          ELSE IF ~checkRemoteExists
            THEN /\ contexts' = setContext(contexts, ptfContext)
                 /\ flow' = showMessage(remote, WalkthroughOffer)
                 /\ UNCHANGED commandQueue
            ELSE IF InitialiseLocalOk(checkLocalExists)
              THEN /\ contexts' = setContext(setContext(setContext(contexts,
                                     ptfContext), remoteCertContext), localCertContext)
                   /\ flow' = [local EXCEPT !.contextsSet = @ \cup {localCertContext}]
                   /\ UNCHANGED commandQueue
              ELSE /\ contexts' = setContext(setContext(contexts,
                                     ptfContext), remoteCertContext)
                   /\ commandQueue' =
                        executeCommand(commandQueue, DebugSetupLocal, FALSE)
                   /\ flow' = local
     /\ UNCHANGED <<outsideDebug, debugEnv, debugCmd, debugStep, force>>

\* ---- code-for-ibmi.debug.activeEditor, part_000 lines 84-101
EditorSchemes == {"member", "streamfile", "file", "object"}
\* configuration.currentLibrary, and the names path.parse and parserMemberPath give
CurrentLibraries == {"", "mylib"}
MemberLibrary == "lib"
ObjectName == "hello.pgm"
\* lines 52-57: toUpperCase(), and a trailing .PGM is removed
UpperWithoutPgm(name) == IF name = "hello.pgm" THEN "HELLO" ELSE ""

\* lines 24-61: getObjectFromUri(uri), with instance.getConfig() and its currentLibrary
getObjectFromUri(scheme, configuration, currentLibrary) ==
  IF debugEnv.connection /\ configuration
    THEN CASE scheme = "member" ->
                [library |-> MemberLibrary, object |-> UpperWithoutPgm(ObjectName)]
           [] scheme \in {"streamfile", "file"} ->
                [library |-> currentLibrary, object |-> UpperWithoutPgm(ObjectName)]
           [] OTHER -> [library |-> "", object |-> ""]
    ELSE [library |-> "", object |-> ""]

\* lines 234-265: startDebug() calls vscode.debug.startDebugging
startDebug(fl) == [fl EXCEPT !.launches = @ + 1]

\* line 91: the session is started
\* (mutant: the password is not looked at)
WillDebugWithoutPassword(password, qualifiedObject) ==
  qualifiedObject.library # "" /\ qualifiedObject.object # ""
WillDebug(password, qualifiedObject) ==
  /\ password \notin {"", "undefined"}
  /\ qualifiedObject.library # ""
  /\ qualifiedObject.object # ""

\* lines 91-99, with the password that getPassword() gave
ActiveEditorFinish(fl, password) ==
  /\ HandlerEnd
  /\ flow' = IF WillDebug(password, fl.qualifiedPath)
               THEN startDebug([fl EXCEPT !.password = password])
               ELSE [fl EXCEPT !.password = password]

\* lines 85-89 and 63-73: up to the password prompt, or to the end; without a
\* connection getPassword() throws at line 67
ActiveEditorBegin(editor, configuration, currentLibrary, secret) ==
  LET resolved == [flow EXCEPT
                     !.editor = editor,
                     !.configured = configuration,
                     !.qualifiedPath =
                        getObjectFromUri(editor, configuration, currentLibrary)]
  IN /\ debugCmd = DebugActiveEditor
     /\ debugStep = "begin"
     /\ IF editor = "none"
          THEN /\ HandlerEnd
               /\ flow' = [flow EXCEPT !.editor = editor]
          ELSE IF ~debugEnv.connection
            THEN /\ HandlerEnd
                 /\ flow' = [resolved EXCEPT !.threw = TRUE]
            ELSE IF secret # ""
              THEN ActiveEditorFinish(resolved, secret)
              ELSE /\ debugStep' = "password"
                   /\ flow' = showMessage(resolved, PasswordPrompt)
                   /\ UNCHANGED <<debugCmd, force>>
     /\ UNCHANGED <<outsideDebug, debugEnv, contexts, commandQueue>>

\* lines 69-75 and 91-99: the answer to the password prompt
ActiveEditorPassword(password) ==
  /\ debugCmd = DebugActiveEditor
  /\ debugStep = "password"
  /\ ActiveEditorFinish(flow, password)
  /\ UNCHANGED <<outsideDebug, debugEnv, contexts, commandQueue>>

\* ---- the flow is over: nothing runs and nothing is left to run
FlowCompleted ==
  /\ FlowEnded
  /\ flow' = NoFlow
  /\ UNCHANGED <<outsideDebug, debugEnv, contexts, debugCmd, debugStep,
                 force, commandQueue>>

DebugEnvs ==
  [connection : BOOLEAN, ptf : BOOLEAN, remoteCerts : BOOLEAN, localCerts : BOOLEAN]

NextDebug ==
  \/ \E env \in DebugEnvs : SetDebugEnv(env)
  \/ \E command \in DebugCommands : UserCommand(command)
  \/ Dispatch
  \/ SetupRemoteBegin
  \/ \E doSetup \in {"Continue", "undefined"} : SetupRemoteConsent(doSetup)
  \/ \E fails \in BOOLEAN : SetupRemoteGenerated(fails)
  \/ SetupLocalBegin
  \/ \E fails \in BOOLEAN : SetupLocalDownloaded(fails)
  \/ StartBegin
  \/ \E localResult \in {"Setup", "undefined"} : StartPrompt(localResult)
  \/ Initialise
  \/ \E editor \in EditorSchemes \cup {"none"}, configuration \in BOOLEAN,
        currentLibrary \in CurrentLibraries, secret \in {"", "secret"} :
        ActiveEditorBegin(editor, configuration, currentLibrary, secret)
  \/ \E password \in {"typed", "", "undefined"} : ActiveEditorPassword(password)
  \/ FlowCompleted

(***************************************************************************)
(*                          Part V: withContext                            *)
(***************************************************************************)
Callers == 1..MaxCallers
\* the map without an entry for the context and with the entry stack, and the
\* context value after setContext(context, undefined)
NoEntry == <<>>
Entry(stack) == <<stack>>
Unset == "undefined"

InitContext ==
  /\ activeContexts = NoEntry
  /\ contextValue = Unset
  /\ callerPc = [c \in Callers |-> "idle"]
  /\ unsetters = {}
  /\ lastReturned = 0
  /\ thrown = {}

\* ---- withContext(context, task), part_001 lines 105-131, one call per caller
\* lines 107-116: up to the await of setContext(context, true), or into the task
WithContextCall(c) ==
  /\ callerPc[c] = "idle"
  /\ IF activeContexts = NoEntry
       THEN /\ callerPc' = [callerPc EXCEPT ![c] = "setContext"]
            /\ UNCHANGED activeContexts
       ELSE /\ activeContexts' = Entry(activeContexts[1] + 1)
            /\ callerPc' = [callerPc EXCEPT ![c] = "task"]
  /\ UNCHANGED <<outsideContext, contextValue, unsetters, lastReturned, thrown>>

\* lines 109-116: setContext(context, true) is done, the task starts
ContextSet(c) ==
  /\ callerPc[c] = "setContext"
  /\ contextValue' = "true"
  /\ activeContexts' = Entry(0)
  /\ callerPc' = [callerPc EXCEPT ![c] = "task"]
  /\ UNCHANGED <<outsideContext, unsetters, lastReturned, thrown>>

\* the call settles: it returns the result of the task, or it is rejected with
\* the error the task threw
Settled(c, threw) == IF threw THEN "rejected" ELSE "returned"

\* lines 116-118: finally runs whether the task returned or threw
\* (mutant: the release is skipped when the task threw)
ReleasedUnlessThrown(throws) == ~throws
Released(throws) == TRUE

\* lines 116-126: the task ends (or throws) and finally runs, up to the await
\* of setContext(context, undefined) or to the return
TaskEnds(c, throws) ==
  /\ callerPc[c] = "task"
  /\ thrown' = (IF throws THEN thrown \cup {c} ELSE thrown)
  /\ IF activeContexts = NoEntry \/ ~Released(throws)
       THEN /\ callerPc' = [callerPc EXCEPT ![c] = Settled(c, throws)]
            /\ lastReturned' = c
            /\ UNCHANGED <<activeContexts, unsetters>>
       ELSE IF activeContexts[1] # 0
         THEN /\ activeContexts' = Entry(activeContexts[1] - 1)
              /\ callerPc' = [callerPc EXCEPT ![c] = Settled(c, throws)]
              /\ lastReturned' = c
              /\ UNCHANGED unsetters
         ELSE /\ callerPc' = [callerPc EXCEPT ![c] = "unsetContext"]
              /\ unsetters' = unsetters \cup {c}
              /\ UNCHANGED <<activeContexts, lastReturned>>
  /\ UNCHANGED <<outsideContext, contextValue>>

\* lines 126-130: setContext(context, undefined) is done, the entry is deleted
ContextUnset(c) ==
  /\ callerPc[c] = "unsetContext"
  /\ contextValue' = Unset
  /\ activeContexts' = NoEntry
  /\ callerPc' = [callerPc EXCEPT ![c] = Settled(c, c \in thrown)]
  /\ lastReturned' = c
  /\ UNCHANGED <<outsideContext, unsetters, thrown>>

\* every call has returned
AllReturned ==
  /\ \A c \in Callers : callerPc[c] \in {"idle", "returned", "rejected"}
  /\ \E c \in Callers : callerPc[c] \in {"returned", "rejected"}

\* ---- the promises are settled, the callers may call again
CallsSettled ==
  /\ AllReturned
  /\ callerPc' = [c \in Callers |-> "idle"]
  /\ unsetters' = {}
  /\ lastReturned' = 0
  /\ thrown' = {}
  /\ UNCHANGED <<outsideContext, activeContexts, contextValue>>

NextContext ==
  \/ \E c \in Callers : WithContextCall(c)
  \/ \E c \in Callers : ContextSet(c)
  \/ \E c \in Callers, throws \in BOOLEAN : TaskEnds(c, throws)
  \/ \E c \in Callers : ContextUnset(c)
  \/ CallsSettled

(***************************************************************************)
(*                      Part VI: the runAction command                     *)
(***************************************************************************)
\* line 394: vscode.window.activeTextEditor, undefined or the editor of a document
NoEditor == [open |-> FALSE, scheme |-> "none", isDirty |-> FALSE]

\* the schemes a document of the active editor can have
DocumentSchemes == {"member", "streamfile", "file", "object"}

ActiveEditors ==
  {NoEditor} \cup [open : {TRUE}, scheme : DocumentSchemes, isDirty : BOOLEAN]

\* line 398: instance.getConfig(), undefined without a connection
NoConfig == [loaded |-> FALSE, autoSaveBeforeAction |-> FALSE]

Configs == {NoConfig} \cup [loaded : {TRUE}, autoSaveBeforeAction : BOOLEAN]

\* what one run of the command did: how it was called, what it found, the
\* answer to the prompt, and the calls it made, in order ("prompt", "update",
\* "save" when save() is called, "saved"/"notSaved" when its promise settles,
\* "runAction")
NoRun ==
  [started |-> FALSE, node |-> FALSE, editor |-> NoEditor, config |-> NoConfig,
   stored |-> FALSE, result |-> "none", calls |-> <<>>, dirtyAtRun |-> FALSE,
   threw |-> FALSE]

InitAction ==
  /\ activeTextEditor = NoEditor
  /\ config = NoConfig
  /\ storedAutoSave = FALSE
  /\ runPc = "idle"
  /\ run = NoRun

\* between two runs the user opens, edits or closes a document, connects,
\* disconnects or changes the connection settings
SetActionEnv(editor, cfg) ==
  /\ runPc = "idle"
  /\ <<editor, cfg>> # <<activeTextEditor, config>>
  /\ activeTextEditor' = editor
  /\ config' = cfg
  /\ storedAutoSave' = (IF cfg.loaded THEN cfg.autoSaveBeforeAction ELSE storedAutoSave)
  /\ UNCHANGED <<outsideAction, runPc, run>>

\* lines 428-430: the schemes an Action is run for
RunSchemes == {"member", "streamfile", "file"}

\* (mutant: the setting is not looked at)
autoSaveBeforeActionNever(cfg) == FALSE
\* line 401: config.autoSaveBeforeAction
autoSaveBeforeAction(cfg) == cfg.autoSaveBeforeAction

\* (mutant: willRun keeps the value of line 400)
DefaultWillRunKept == TRUE
\* line 419: default: willRun = false
DefaultWillRun == FALSE

\* lines 425-434: CompileTools.runAction(instance, uri) if willRun and the
\* scheme is one of the three; the handler returns
RunIfWilling(r, willRun, editor) ==
  /\ run' = (IF willRun /\ editor.scheme \in RunSchemes
               THEN [r EXCEPT !.calls = Append(r.calls, "runAction"),
                              !.dirtyAtRun = editor.isDirty]
               ELSE r)
  /\ runPc' = "done"

\* lines 387-405: the handler up to its first await
RunActionBegin(node) ==
  LET r == [NoRun EXCEPT !.started = TRUE, !.node = node,
                         !.editor = activeTextEditor, !.config = config,
                         !.stored = storedAutoSave]
  IN /\ runPc = "idle"
     /\ run = NoRun
     /\ IF node
          THEN \* lines 388-391
               /\ run' = [r EXCEPT !.calls = <<"runAction">>,
                                   !.dirtyAtRun = activeTextEditor.isDirty]
               /\ runPc' = "done"
          ELSE IF ~activeTextEditor.open
            THEN /\ run' = r
                 /\ runPc' = "done"
            ELSE IF ~config.loaded
              THEN \* line 401 reads a property of undefined
                   /\ run' = [r EXCEPT !.threw = TRUE]
                   /\ runPc' = "done"
              ELSE IF autoSaveBeforeAction(config)
                THEN /\ run' = [r EXCEPT !.calls = <<"save">>]
                     /\ runPc' = "save"
                ELSE IF activeTextEditor.isDirty
                  THEN /\ run' = [r EXCEPT !.calls = <<"prompt">>]
                       /\ runPc' = "prompt"
                  ELSE RunIfWilling(r, TRUE, activeTextEditor)
     /\ UNCHANGED <<outsideAction, activeTextEditor, config, storedAutoSave>>

\* lines 405-421: the warning message is answered or dismissed
PromptAnswered(result) ==
  LET r == [run EXCEPT !.result = result]
  IN /\ runPc = "prompt"
     /\ IF result = "Save"
          THEN /\ run' = [r EXCEPT !.calls = Append(r.calls, "save")]
               /\ runPc' = "save"
               /\ UNCHANGED config
          ELSE IF result = "Save automatically"
            THEN /\ config' = [config EXCEPT !.autoSaveBeforeAction = TRUE]
                 /\ run' = [r EXCEPT !.calls = Append(r.calls, "update")]
                 /\ runPc' = "update"
            ELSE /\ RunIfWilling(r, DefaultWillRun, activeTextEditor)
                 /\ UNCHANGED config
     /\ UNCHANGED <<outsideAction, activeTextEditor, storedAutoSave>>

\* lines 414-415: ConnectionConfiguration.update(config) settled, save() is called
ConfigUpdated ==
  /\ runPc = "update"
  /\ storedAutoSave' = config.autoSaveBeforeAction
  /\ run' = [run EXCEPT !.calls = Append(run.calls, "save")]
  /\ runPc' = "save"
  /\ UNCHANGED <<outsideAction, activeTextEditor, config>>

\* lines 402, 409, 415: editor.document.save() settled; its result (false if
\* the save failed) is not looked at
SaveSettled(saved) ==
  LET editor == [activeTextEditor EXCEPT !.isDirty = IF saved THEN FALSE ELSE @]
      r == [run EXCEPT !.calls = Append(run.calls, IF saved THEN "saved" ELSE "notSaved")]
  IN /\ runPc = "save"
     /\ activeTextEditor' = editor
     /\ RunIfWilling(r, TRUE, editor)
     /\ UNCHANGED <<outsideAction, config, storedAutoSave>>

\* the handler returned
RunCompleted ==
  /\ runPc = "done"
  /\ runPc' = "idle"
  /\ run' = NoRun
  /\ UNCHANGED <<outsideAction, activeTextEditor, config, storedAutoSave>>

PromptResults == {"Save", "Save automatically", "Cancel", "undefined"}

NextAction ==
  \/ \E editor \in ActiveEditors, cfg \in Configs : SetActionEnv(editor, cfg)
  \/ \E node \in BOOLEAN : RunActionBegin(node)
  \/ \E result \in PromptResults : PromptAnswered(result)
  \/ ConfigUpdated
  \/ \E saved \in BOOLEAN : SaveSettled(saved)
  \/ RunCompleted

(***************************************************************************)
(*                     Part VII: the colour checker                        *)
(***************************************************************************)
\* ---- colour.ts: the content of a document is a string of character codes
\* tab, line feed, `A`, and a code of the range 128-157
CharCodes == {9, 10, 65, 130}
Space == 32

RECURSIVE Strings(_)
Strings(n) ==
  IF n = 0 THEN {<<>>}
  ELSE Strings(n - 1) \cup
       {Append(s, ch) : s \in {t \in Strings(n - 1) : Len(t) = n - 1}, ch \in CharCodes}

Contents == Strings(MaxChars)

\* line 5
NEW_LINE_NUMBERS == {10, 13}

\* lines 35-40
replaceCharCode(charCode) ==
  \/ (charCode < 32 /\ charCode \notin NEW_LINE_NUMBERS)
  \/ (charCode >= 128 /\ charCode <= 157)

\* lines 12-18
hasInvalidCharacters(content) ==
  \E i \in 1..Len(content) : replaceCharCode(content[i])

\* lines 68-79
replaceInvalidCharacters(content) ==
  [i \in 1..Len(content) |->
     IF replaceCharCode(content[i]) THEN Space ELSE content[i]]

\* the document of the onDidOpenTextDocument event
ColourDocuments ==
  [scheme : {"member", "streamfile"}, isClosed : BOOLEAN, content : Contents]

\* line 43: instance.getConfig(), undefined without a connection
NoColourConfig == [loaded |-> FALSE, autoFixInvalidCharacters |-> FALSE]
ColourConfigs ==
  {NoColourConfig} \cup [loaded : {TRUE}, autoFixInvalidCharacters : BOOLEAN]

\* what the running handler found and did: the content and the setting at the
\* event, the answer to the prompt, the edit applied and the setConfig calls
NoCheck ==
  [opened |-> FALSE, content |-> <<>>, config |-> NoColourConfig,
   prompted |-> FALSE, chosen |-> "none", edited |-> FALSE, setConfigs |-> 0]

InitColour ==
  /\ colourDocument = [scheme |-> "streamfile", isClosed |-> FALSE, content |-> <<>>]
  /\ colourConfig = NoColourConfig
  /\ colourPc = "idle"
  /\ check = NoCheck

\* between two events another document is the next to be opened, and the
\* connection and its settings change
SetColourEnv(document, cfg) ==
  /\ colourPc = "idle"
  /\ <<document, cfg>> # <<colourDocument, colourConfig>>
  /\ colourDocument' = document
  /\ colourConfig' = cfg
  /\ UNCHANGED <<outsideColour, colourPc, check>>

\* lines 23-28: the content the handler read is cleaned and written back
ApplyFix(ck) ==
  /\ colourDocument' = [colourDocument EXCEPT
                          !.content = replaceInvalidCharacters(ck.content)]
  /\ check' = [ck EXCEPT !.edited = TRUE]
  /\ colourPc' = "done"

\* lines 9-21 and 42-54: the handler of onDidOpenTextDocument, up to the prompt
DidOpenTextDocument ==
  LET ck == [NoCheck EXCEPT !.opened = TRUE, !.content = colourDocument.content,
                            !.config = colourConfig]
  IN /\ colourPc = "idle"
     /\ check = NoCheck
     /\ IF /\ colourDocument.scheme = "member"
           /\ ~colourDocument.isClosed
           /\ hasInvalidCharacters(colourDocument.content)
          THEN IF colourConfig.loaded /\ colourConfig.autoFixInvalidCharacters
                 THEN ApplyFix(ck)
                 ELSE /\ colourPc' = "prompt"
                      /\ check' = [ck EXCEPT !.prompted = TRUE]
                      /\ UNCHANGED colourDocument
          ELSE /\ colourPc' = "done"
               /\ check' = ck
               /\ UNCHANGED colourDocument
     /\ UNCHANGED <<outsideColour, colourConfig>>

\* lines 52-65 and 23-28: the information message is answered or dismissed
ColourPromptAnswered(chosen) ==
  LET ck == [check EXCEPT !.chosen = chosen]
  IN /\ colourPc = "prompt"
     /\ IF chosen = "No"
          THEN /\ colourPc' = "done"
               /\ check' = ck
               /\ UNCHANGED <<colourDocument, colourConfig>>
          ELSE IF chosen = "Always" /\ colourConfig.loaded
            THEN /\ colourConfig' = [colourConfig EXCEPT
                                       !.autoFixInvalidCharacters = TRUE]
                 /\ colourPc' = "setConfig"
                 /\ check' = ck
                 /\ UNCHANGED colourDocument
            ELSE /\ ApplyFix(ck)
                 /\ UNCHANGED colourConfig
     /\ UNCHANGED outsideColour

\* lines 62-65 and 23-28: instance.setConfig(config) is done
ColourConfigSet ==
  /\ colourPc = "setConfig"
  /\ ApplyFix([check EXCEPT !.setConfigs = @ + 1])
  /\ UNCHANGED <<outsideColour, colourConfig>>

\* the handler returned
CheckCompleted ==
  /\ colourPc = "done"
  /\ colourPc' = "idle"
  /\ check' = NoCheck
  /\ UNCHANGED <<outsideColour, colourDocument, colourConfig>>

ColourChoices == {"Yes", "Always", "No", "undefined"}

NextColour ==
  \/ \E document \in ColourDocuments, cfg \in ColourConfigs : SetColourEnv(document, cfg)
  \/ DidOpenTextDocument
  \/ \E chosen \in ColourChoices : ColourPromptAnswered(chosen)
  \/ ColourConfigSet
  \/ CheckCompleted

(***************************************************************************)
(*                     Part VIII: the '/connect' URI handler               *)
(***************************************************************************)
\* ---- uri/index.ts: strings are sequences of pieces
Users == {"alice", "bob"}
Hosts == {"hosta", "hostb"}
\* line 54: name: `${user}-${host}`
ConnectionName(user, host) == <<user, "-", host>>
\* a connection the user saved under the name of its host in the login form
HostName(host) == <<host>>

\* what the running handler was asked to do
NoRequest == [user |-> "", host |-> "", save |-> FALSE, message |-> "none",
              pushed |-> FALSE]

InitHandler ==
  /\ connections = <<>>
  /\ uriConnection = FALSE
  /\ handlePc = "idle"
  /\ request = NoRequest

\* line 69: existingConnections.find(item => item.name === host)
existingConnection(existingConnections, host) ==
  \E n \in 1..Len(existingConnections) : existingConnections[n] = HostName(host)

\* lines 14-60: handleUri for the path /connect, up to the await of
\* connectDirect; user and pass are what the query or the input boxes gave
HandleUri(user, pass, host, save) ==
  LET rq == [NoRequest EXCEPT !.user = user, !.host = host, !.save = save]
  IN /\ handlePc = "idle"
     /\ request = NoRequest
     /\ IF uriConnection
          THEN /\ request' = [rq EXCEPT !.message = "alreadyConnected"]
               /\ handlePc' = "done"
          ELSE IF user # "" /\ pass
            THEN /\ request' = rq
                 /\ handlePc' = "connectDirect"
            ELSE /\ request' = [rq EXCEPT !.message = "noPassword"]
                 /\ handlePc' = "done"
     /\ UNCHANGED <<outsideHandler, connections, uriConnection>>

\* lines 60-89: connectDirect answered; with save the connection is added to
\* the setting `connections` unless line 69 finds one
ConnectDirectDone(connectionResult) ==
  /\ handlePc = "connectDirect"
  /\ handlePc' = "done"
  /\ uriConnection' = connectionResult
  /\ IF connectionResult
       THEN IF /\ request.save
               /\ ~existingConnection(connections, request.host)
               /\ Len(connections) < MaxSaved
              THEN /\ connections' =
                        Append(connections, ConnectionName(request.user, request.host))
                   /\ request' = [request EXCEPT !.pushed = TRUE]
              ELSE UNCHANGED <<connections, request>>
       ELSE /\ request' = [request EXCEPT !.message = "failedToConnect"]
            /\ UNCHANGED connections
  /\ UNCHANGED outsideHandler

\* the handler returned
HandleCompleted ==
  /\ handlePc = "done"
  /\ handlePc' = "idle"
  /\ request' = NoRequest
  /\ UNCHANGED <<outsideHandler, connections, uriConnection>>

\* the user disconnects
UriDisconnect ==
  /\ handlePc = "idle"
  /\ uriConnection
  /\ uriConnection' = FALSE
  /\ UNCHANGED <<outsideHandler, connections, handlePc, request>>

\* the user saves a connection in the login form, under the name of its host
SaveFromLogin(host) ==
  /\ handlePc = "idle"
  /\ Len(connections) < MaxSaved
  /\ \A n \in 1..Len(connections) : connections[n] # HostName(host)
  /\ connections' = Append(connections, HostName(host))
  /\ UNCHANGED <<outsideHandler, uriConnection, handlePc, request>>

\* the user deletes a saved connection
DeleteConnection(n) ==
  /\ handlePc = "idle"
  /\ n \in 1..Len(connections)
  /\ connections' = [i \in 1..(Len(connections) - 1) |->
                       IF i < n THEN connections[i] ELSE connections[i + 1]]
  /\ UNCHANGED <<outsideHandler, uriConnection, handlePc, request>>

NextHandler ==
  \/ \E user \in Users \cup {""}, pass \in BOOLEAN, host \in Hosts, save \in BOOLEAN :
        HandleUri(user, pass, host, save)
  \/ \E connectionResult \in BOOLEAN : ConnectDirectDone(connectionResult)
  \/ HandleCompleted
  \/ UriDisconnect
  \/ \E host \in Hosts : SaveFromLogin(host)
  \/ \E n \in 1..MaxSaved : DeleteConnection(n)

(***************************************************************************)
(*                             Specifications                              *)
(***************************************************************************)
Init ==
  /\ InitDisconnect /\ InitConfig /\ InitUri /\ InitDebug /\ InitContext
  /\ InitAction /\ InitColour /\ InitHandler

SpecDisconnect == Init /\ [][NextDisconnect]_vars

SpecConfig == Init /\ [][NextConfig]_vars

SpecUri == Init /\ [][NextUri]_vars

SpecDebug == Init /\ [][NextDebug]_vars

\* an executed command is run, an awaited call settles and a prompt is answered
HandlerStep ==
  \/ Dispatch
  \/ SetupRemoteBegin
  \/ \E doSetup \in {"Continue", "undefined"} : SetupRemoteConsent(doSetup)
  \/ \E fails \in BOOLEAN : SetupRemoteGenerated(fails)
  \/ SetupLocalBegin
  \/ \E fails \in BOOLEAN : SetupLocalDownloaded(fails)
  \/ StartBegin
  \/ \E localResult \in {"Setup", "undefined"} : StartPrompt(localResult)
  \/ \E editor \in EditorSchemes \cup {"none"}, configuration \in BOOLEAN,
        currentLibrary \in CurrentLibraries, secret \in {"", "secret"} :
        ActiveEditorBegin(editor, configuration, currentLibrary, secret)
  \/ \E password \in {"typed", "", "undefined"} : ActiveEditorPassword(password)

SpecDebugFair == SpecDebug /\ WF_vars(HandlerStep)

SpecContext == Init /\ [][NextContext]_vars

SpecAction == Init /\ [][NextAction]_vars

SpecColour == Init /\ [][NextColour]_vars

SpecHandler == Init /\ [][NextHandler]_vars


(***************************************************************************)
(*                    Claims about disconnect (Part I)                     *)
(***************************************************************************)
CallRunning == pc \in {"prompt", "disconnected", "ended", "returned"}

\* C1: when disconnect() has prompted and the user did not choose
\* 'Disconnect anyway', connection.end() is not called, the connection stays
\* active and the call returns false.
C1_DeclineKeepsConnection ==
  (CallRunning /\ answer = Dismissed) =>
     /\ endCalls = 0
     /\ connected
     /\ pc \notin {"disconnected", "ended"}
     /\ (pc = "returned" => returned = "false")

C1_Witness ==
  /\ pc = "returned"
  /\ promptCount = 1
  /\ answer = Dismissed
  /\ returned = "false"

\* C2: one call of disconnect() shows the prompt at most once, for the first
\* dirty remote-backed document of textDocuments, and the answer to it decides
\* what the call returns.
C2_SinglePrompt ==
  /\ promptCount <= 1
  /\ (promptCount = 1 => (firstDirty # 0 /\ promptedDoc = firstDirty))
  /\ (CallRunning /\ promptCount = 0 => firstDirty = 0)
  /\ (pc = "returned" => (returned = "false" <=> answer = Dismissed))
  /\ (pc = "returned" => (returned = "true" <=> answer \in {"none", DisconnectAnyway}))

\* two dirty remote-backed documents, one prompt, declined
C2_Witness ==
  /\ pc = "returned"
  /\ promptCount = 1
  /\ answer = Dismissed
  /\ Cardinality({i \in snapshot : /\ ~documents[i].isClosed
                                   /\ documents[i].scheme \in RemoteSchemes
                                   /\ documents[i].isDirty}) >= 2

RemoteTextTab(t) == t.input = "text" /\ t.scheme \in RemoteSchemes

\* C3: after a disconnect no clean text tab of a member, streamfile or object
\* document is left open, whatever the tab groups are.
C3_AllCleanRemoteTabsClosed ==
  closeReport.ran =>
    \A t \in closeReport.left : ~(RemoteTextTab(t) /\ ~t.isDirty)

\* C4: onDisconnected() closes no dirty tab and no tab of another scheme than
\* member, streamfile, object.
C4_OnlyCleanRemoteTabsClosed ==
  closeReport.ran =>
    \A t \in closeReport.closed : ~t.isDirty /\ t.scheme \in RemoteSchemes

\* a remote tab was closed while a clean tab of a local file stayed open
C4_Witness ==
  /\ closeReport.ran
  /\ closeReport.closed # {}
  /\ \E t \in closeReport.left :
        t.scheme = "file" /\ t.input = "text" /\ ~t.isDirty

\* C31: connection.end() is called only when the loop over the open
\* documents is over and no prompt was declined; a call that finds no dirty
\* open member, streamfile or object document shows no prompt and ends the
\* connection, whatever dirty documents of other schemes are open.
C31_EndOnlyAfterScan ==
  /\ (CallRunning /\ endCalls > 0) =>
        /\ idx = MaxDocs + 1
        /\ doDisconnect
        /\ answer # Dismissed
        /\ endCalls = 1
  /\ (CallRunning /\ firstDirty = 0) =>
        /\ promptCount = 0
        /\ pc # "prompt"
        /\ endCalls = 1
  /\ pc = "prompt" =>
        /\ endCalls = 0
        /\ firstDirty # 0
        /\ promptedDoc = firstDirty

\* the connection was ended without a prompt although a local file is dirty
C31_Witness ==
  /\ pc = "returned"
  /\ returned = "true"
  /\ promptCount = 0
  /\ endCalls = 1
  /\ \E i \in snapshot : /\ ~documents[i].isClosed
                         /\ documents[i].scheme = "file"
                         /\ documents[i].isDirty

(***************************************************************************)
(*                    Claims about ConfigFile (Part II)                    *)
(***************************************************************************)
Keys == {"a", "b"}
\* a value without the mark the validator leaves on it
Raw(d) == [d EXCEPT !.clean = FALSE]
\* what a returned value holds for key K: the array under K of an object, or
\* the value itself when get() returns the bare array
YieldsFor(d, K) ==
  IF d.kind = "array" THEN d.items
  ELSE IF HasArrayAt(d, K) THEN ItemsAt(d, K) ELSE <<>>
\* the array items a value holds
ItemsOf(d) ==
  {d.items[n] : n \in 1..Len(d.items)} \cup
  UNION {{d.entries[e].items[n] : n \in 1..Len(d.entries[e].items)} :
           e \in 1..Len(d.entries)}

\* get() was called after a loadFromServer() had loaded the server copy (no
\* reset and no other load since) and the workspace file parses to a document
BothPresent ==
  /\ getEntry.load = "ok"
  /\ Truthy(getEntry.good)
  /\ lastLoad = "ok"
  /\ loadPc = "idle"
  /\ goodLoad = getEntry.good
  /\ workspaceFile.file = "json"
  /\ Truthy(workspaceFile.doc)

\* C5: with mergeArrays, a loaded server config and a parsable
\* workspace config that both hold an array under K, get(workspaceFolder)
\* yields for K the workspace array followed by the server array.
C5_MergeYieldsConcatenation ==
  (getPc = "returned" /\ getFolder /\ mergeArrays /\ BothPresent) =>
    \A K \in Keys :
      (HasArrayAt(workspaceFile.doc, K) /\ HasArrayAt(goodLoad, K)) =>
         /\ getResult.status = "value"
         /\ YieldsFor(getResult.value, K) =
               ItemsAt(workspaceFile.doc, K) \o ItemsAt(goodLoad, K)

\* C6: without mergeArrays, a loaded server config and a parsable
\* workspace config, get(workspaceFolder) returns the workspace document.
C6_WorkspaceOverrides ==
  (getPc = "returned" /\ getFolder /\ ~mergeArrays /\ BothPresent) =>
    /\ getResult.status = "value"
    /\ Raw(getResult.value) = workspaceFile.doc

\* C7: after a loadFromServer() that met an unparsable server file,
\* and without a workspace file, get() returns undefined and the server status
\* is failed_to_parse afterwards, with or without a workspace folder.
C7_FailedParseStatusKept ==
  (getPc = "returned" /\ getEntry.load = "failed_to_parse"
     /\ lastLoad = "failed_to_parse" /\ loadPc = "idle"
     /\ workspaceFile = NoFile) =>
    /\ getResult.status = "value"
    /\ getResult.value = Undefined
    /\ getState.server = "failed_to_parse"

\* C8: a loadFromServer() that meets an unparsable server file sets
\* the server status to failed_to_parse and leaves the server data cached by
\* an earlier successful load unchanged.
C8_FailedParseKeepsCache ==
  (loadPc = "returned" /\ lastLoad = "failed_to_parse" /\ Truthy(goodLoad)) =>
    /\ getState.server = "failed_to_parse"
    /\ serverData = goodLoad

\* C9: once a loadFromServer() has loaded the server copy, every
\* get() called before the next reset() returns that data without searching
\* the workspace, whatever loadFromServer() calls came in between.
C9_CachedUntilReset ==
  (getPc = "returned" /\ Truthy(getEntry.good)) =>
    /\ getResult.status = "value"
    /\ getResult.value = getEntry.good
    /\ ~getResult.searched

\* C10: a get() that returns after reset(), before a loadFromServer() has
\* loaded the server copy again, returns undefined or the workspace document,
\* and nothing of the server data.
C10_NoServerDataAfterReset ==
  (getPc = "returned" /\ sinceReset /\ getResult.status = "value") =>
    /\ Raw(getResult.value) \in {Undefined, workspaceFile.doc}
    /\ ItemsOf(getResult.value) \cap ServerItems = {}

\* server data was loaded, reset() ran, and get() returned the workspace document
C10_Witness ==
  /\ getPc = "returned"
  /\ sinceReset
  /\ lastLoad = "ok"
  /\ serverFile.file = "json"
  /\ Truthy(serverFile.doc)
  /\ getResult.status = "value"
  /\ Truthy(getResult.value)

\* C11: a loadFromServer() that fails with a transport error in the probe or
\* in the download does not leave the server status at no_exist.
C11_TransportErrorNotNoExist ==
  (loadPc = "returned" /\ lastLoad = "transport_error") =>
    getState.server # "no_exist"

\* the values a supplied validator returns: cleaned objects and arrays
ValidatorOutput(d) == ~ValidatorThrows(d) /\ d = Clean(d)

MatchingKeys(ws, sd) ==
  SelectSeq([n \in 1..Len(ws.entries) |-> ws.entries[n].k],
            LAMBDA key : HasArrayAt(ws, key) /\ HasArrayAt(sd, key))

\* get() went through the merge of lines 86-95
Merged ==
  /\ getPc = "returned"
  /\ ~Truthy(getEntry.data)
  /\ mergeArrays
  /\ Truthy(workspaceConfig)
  /\ Truthy(serverData)
  /\ Len(MatchingKeys(workspaceConfig, serverData)) > 1

\* C13: a merge over more than one matching key returns the concatenation
\* (workspace values, then server values) for the last matching key.
C13_LastMatchingKeyWins ==
  Merged =>
    LET keys == MatchingKeys(workspaceConfig, serverData)
        last == keys[Len(keys)]
    IN /\ getResult.status = "value"
       /\ Raw(getResult.value) =
            Arr(ItemsAt(workspaceConfig, last) \o ItemsAt(serverData, last))

\* C13 amended: a merge over more than one matching key returns the
\* concatenation (workspace values, then server values) for the first matching
\* key; once the accumulator is an array no later key matches.
C13_FirstMatchingKeyWins ==
  Merged =>
    LET keys == MatchingKeys(workspaceConfig, serverData)
        first == keys[1]
    IN /\ getResult.status = "value"
       /\ Raw(getResult.value) =
            Arr(ItemsAt(workspaceConfig, first) \o ItemsAt(serverData, first))

\* loadFromServer() completed while get() was reading the workspace file, and
\* get() merged two documents with two matching keys
C13_Witness ==
  /\ Merged
  /\ getResult.status = "value"
  /\ getResult.value.kind = "array"

(***************************************************************************)
(*                  Claims about resource URIs (Part III)                  *)
(***************************************************************************)
OpenUris == {uriDocuments[n] : n \in 1..Len(uriDocuments)}
\* the two uris differ in the query (readonly flag) or the fragment only
SameButFlags(a, b) == a.scheme = b.scheme /\ a.path = b.path
\* the two paths differ in the letter case of their characters only
SameButCase(p, q) ==
  /\ Len(p) = Len(q)
  /\ \A n \in 1..Len(p) : p[n].low = q[n].low
\* the path lies under /QOpenSys/, the case sensitive root
UnderQOpenSys(p) == Len(p) >= 2 /\ p[1].low = "qopensys"

\* C14: an open document and a uri that differ in the readonly flag or the
\* fragment only are equivalent, and the document is found for that uri.
C14_FlagsIgnored ==
  \A a \in OpenUris, b \in Uris :
    SameButFlags(a, b) =>
      /\ areEquivalentUris(a, b)
      /\ areEquivalentUris(b, a)
      /\ findExistingDocument(uriDocuments, b) # 0

\* an open request for a uri that differs from an open one in its flags was
\* resolved to the open document
C14_Witness ==
  /\ lastOpen = [kind |-> "existing", relation |-> "flags"]
  /\ \E a \in OpenUris : a.query # "" \/ a.fragment # ""

\* C15: for an open document and a uri of the same scheme whose paths differ
\* in letter case only: they are equivalent if the scheme is member or object,
\* or streamfile with a path not under /QOpenSys/; for a streamfile path under
\* /QOpenSys/ they are equivalent only if the paths are equal.
C15_CaseRules ==
  \A a \in OpenUris, b \in Uris :
    (a.scheme = b.scheme /\ SameButCase(a.path, b.path)) =>
      IF a.scheme = "streamfile" /\ UnderQOpenSys(a.path)
        THEN areEquivalentUris(a, b) <=> a.path = b.path
        ELSE areEquivalentUris(a, b)

\* a streamfile under /QOpenSys/ and the same path in another letter case are
\* open side by side: the second request was not resolved to the first
C15_Witness ==
  /\ lastOpen = [kind |-> "new", relation |-> "same"]
  /\ \E a, b \in OpenUris :
       /\ a # b
       /\ a.scheme = "streamfile" /\ b.scheme = "streamfile"
       /\ UnderQOpenSys(a.path)
       /\ SameButCase(a.path, b.path)

\* C16: findExistingDocumentUri(uri) is the uri of an open document
\* equivalent to uri when there is one, else uri; it is always equivalent to
\* uri.
C16_ResolvesToExisting ==
  \A uri \in Uris :
    LET found == findExistingDocumentUri(uriDocuments, uri)
        existing == {d \in OpenUris : areEquivalentUris(d, uri)}
    IN /\ existing # {} => found \in existing
       /\ existing = {} => found = uri
       /\ areEquivalentUris(found, uri)

\* a request was resolved to an open document with another uri
C16_Witness ==
  /\ lastOpen.kind = "existing"
  /\ lastOpen.relation \in {"flags", "case"}
  /\ Len(uriDocuments) = MaxOpen

NothingAttempted ==
  /\ flow.remoteProbes = 0
  /\ flow.localProbes = 0
  /\ flow.setups = 0
  /\ flow.downloads = 0
  /\ flow.startups = 0

\* C18: on a connection without startDebugService.sh a flow makes no
\* certificate probe, no generation, no download and no server start, and each
\* of the three commands ends with the one message 'Debug PTF not installed.'
\* and triggers no other command.
C18_PtfMissingStops ==
  (debugEnv.connection /\ ~debugEnv.ptf) =>
    /\ NothingAttempted
    /\ (FlowEnded /\ flow.commands[1] \in BootstrapCommands) =>
         (Len(flow.commands) = 1 /\ flow.messages = <<PtfMissing>>)

C18_Witness ==
  /\ FlowEnded
  /\ debugEnv.connection
  /\ ~debugEnv.ptf
  /\ flow.commands = <<DebugStart>>
  /\ flow.messages = <<PtfMissing>>

\* C19: debug.setup.local skips the download only if the local certificate
\* exists and the remote certificates were not generated in this flow; a flow
\* that generated the remote certificates calls downloadToLocal, also when a
\* local certificate exists.
C19_FreshRemoteForcesDownload ==
  /\ flow.setupLocal = "skipped" => (flow.localExists = "yes" /\ ~flow.generated)
  /\ (FlowEnded /\ flow.generated) =>
       (flow.setupLocal = "download" /\ flow.downloads = 1)

\* the remote certificates were generated and the local one, which existed, was
\* downloaded again
C19_Witness ==
  /\ FlowEnded
  /\ flow.generated
  /\ flow.localExists = "yes"
  /\ flow.downloads = 1
  /\ ~flow.downloadFailed

\* C20: when certificates.setup fails its error message is shown, the flow
\* does not set the remote certificate key, and debug.setup.local is neither
\* triggered nor run: no local probe and no download.
C20_SetupFailureAborts ==
  flow.setupFailed =>
    /\ flow.messages = <<ConsentPrompt, SetupError>>
    /\ remoteCertContext \notin flow.contextsSet
    /\ commandQueue = <<>>
    /\ debugCmd = "none"
    /\ DebugSetupLocal \notin {flow.commands[n] : n \in 1..Len(flow.commands)}
    /\ flow.localProbes = 0
    /\ flow.downloads = 0

\* debug.start found no remote certificates and triggered the setup, which failed
C20_Witness ==
  /\ FlowEnded
  /\ flow.setupFailed
  /\ flow.commands = <<DebugStart, DebugSetupRemote>>

FlowCommands == {flow.commands[n] : n \in 1..Len(flow.commands)}

\* C21: when certificates.downloadToLocal fails, debug.setup.local shows
\* 'Failed to download new local debug certificate' and returns: the flow does
\* not set the local certificate key and makes no second download.
C21_DownloadFailureAborts ==
  flow.downloadFailed =>
    /\ flow.messages # <<>>
    /\ flow.messages[Len(flow.messages)] = DownloadFailed
    /\ localCertContext \notin flow.contextsSet
    /\ flow.downloads = 1
    /\ debugCmd = "none"
    /\ commandQueue = <<>>

\* the remote certificates were generated, then the download failed
C21_Witness ==
  /\ FlowEnded
  /\ flow.downloadFailed
  /\ flow.generated

\* C22: certificates.setup is called only after the remote probe of that
\* debug.setup.remote run found nothing and the user answered 'Continue'; when
\* the user declines, nothing is generated and debug.setup.local is not
\* triggered.
C22_SetupNeedsConsent ==
  /\ flow.setups > 0 =>
       (flow.remoteExists = "no" /\ flow.consent = "Continue" /\ flow.setups = 1)
  /\ flow.consent = "undefined" =>
       /\ flow.setups = 0
       /\ ~flow.generated
       /\ ~debugEnv.remoteCerts
       /\ remoteCertContext \notin flow.contextsSet
       /\ DebugSetupLocal \notin FlowCommands
       /\ commandQueue = <<>>
       /\ debugCmd = "none"

\* the user declined the consent prompt and the flow ended there
C22_Witness ==
  /\ FlowEnded
  /\ flow.consent = "undefined"
  /\ flow.messages = <<ConsentPrompt>>

\* C23: vscode.debug.startDebugging is called only when the remote and the
\* local certificate key are both set.
C23_LaunchNeedsCertificates ==
  flow.launches > 0 =>
    (contexts[remoteCertContext] = "true" /\ contexts[localCertContext] = "true")

\* C24: a flow sets the local certificate key only if the local probe passed
\* or the flow generated the remote certificates.
C24_LocalKeyNeedsProbeOrGeneration ==
  localCertContext \in flow.contextsSet =>
    (flow.localExists = "yes" \/ flow.generated)

\* C24 amended: a flow sets the local certificate key only if the local probe
\* passed or certificates.downloadToLocal succeeded in the flow.
C24_LocalKeyNeedsProbeOrDownload ==
  localCertContext \in flow.contextsSet =>
    \/ flow.localExists = "yes"
    \/ (flow.downloads = 1 /\ ~flow.downloadFailed /\ debugEnv.localCerts)

\* the key was set after a download that no generation had forced and no
\* passed probe preceded
C24_Witness ==
  /\ FlowEnded
  /\ localCertContext \in flow.contextsSet
  /\ flow.localExists = "no"
  /\ ~flow.generated
  /\ flow.downloads = 1

\* the messages of the flow that ask for no consent
TerminalMessages == SelectSeq(flow.messages, LAMBDA text : text # ConsentPrompt)

\* C25: a flow that one of debug.start, debug.setup.remote, debug.setup.local
\* began has shown exactly one terminal message when it ends.
C25_OneTerminalMessage ==
  (FlowEnded /\ flow.commands[1] \in BootstrapCommands) =>
    Len(TerminalMessages) = 1

\* the place of a command in the order debug.start, debug.setup.remote,
\* debug.setup.local
Rank(command) ==
  CASE command = DebugStart -> 1
    [] command = DebugSetupRemote -> 2
    [] command = DebugSetupLocal -> 3
    [] OTHER -> 0
Linear ==
  /\ \A n \in 1..(Len(flow.commands) - 1) :
        Rank(flow.commands[n]) < Rank(flow.commands[n + 1])
  /\ \A n \in 1..Len(commandQueue) :
        flow.commands # <<>> =>
          Rank(flow.commands[Len(flow.commands)]) < Rank(commandQueue[n].command)
  /\ Len(commandQueue) <= 1
  /\ flow.setups <= 1
  /\ flow.downloads <= 1
  /\ flow.setupFailed => flow.setups = 1
  /\ flow.downloadFailed => flow.downloads = 1
FlowRunning == debugCmd # "none" \/ commandQueue # <<>>

\* C26: the commands of a flow run in the order debug.start,
\* debug.setup.remote, debug.setup.local, each at most once, with at most one
\* call of certificates.setup and of certificates.downloadToLocal, and every
\* flow comes to its end.
C26_LinearAndTerminates ==
  /\ []Linear
  /\ FlowRunning ~> ~FlowRunning

\* a flow went through the three commands, generation and download, and ended
C26_Witness ==
  /\ FlowEnded
  /\ flow.commands = <<DebugStart, DebugSetupRemote, DebugSetupLocal>>
  /\ flow.setups = 1
  /\ flow.downloads = 1

(***************************************************************************)
(*                    Claims about withContext (Part V)                    *)
(***************************************************************************)
\* C27: while a task runs the context value is true.
C27_ContextTrueDuringTask ==
  \A c \in Callers : callerPc[c] = "task" => contextValue = "true"

\* C28: once every call has returned the context value is unset,
\* activeContexts holds no entry, and the unset was issued by the call that
\* returned last, and by no other.
C28_LastCallerUnsets ==
  AllReturned =>
    /\ contextValue = Unset
    /\ activeContexts = NoEntry
    /\ unsetters = {lastReturned}

(***************************************************************************)
(*                     Claims about runAction (Part VI)                    *)
(***************************************************************************)
\* position of the first `call` in the calls of the run (0: not made)
FirstCall(call) ==
  IF \E i \in DOMAIN run.calls : run.calls[i] = call
    THEN CHOOSE i \in DOMAIN run.calls :
           /\ run.calls[i] = call
           /\ \A j \in 1..(i - 1) : run.calls[j] # call
    ELSE 0

\* the run was started from the active editor, on a modified document
FromModifiedEditor ==
  /\ run.started
  /\ ~run.node
  /\ run.editor.open
  /\ run.editor.isDirty
  /\ run.config.loaded

\* C29: a run from the active editor on a modified document without
\* auto-save whose prompt is answered 'Cancel' or dismissed does not invoke
\* CompileTools.runAction, does not save the document and leaves the
\* configuration, in memory and stored, as it was.
C29_CancelAborts ==
  (/\ FromModifiedEditor
   /\ ~run.config.autoSaveBeforeAction
   /\ run.result \in {"Cancel", "undefined"})
  => /\ run.calls = <<"prompt">>
     /\ activeTextEditor = run.editor
     /\ config = run.config
     /\ storedAutoSave = run.stored

C29_Witness ==
  /\ FromModifiedEditor
  /\ run.editor.scheme = "member"
  /\ ~run.config.autoSaveBeforeAction
  /\ run.result = "Cancel"
  /\ runPc = "done"

C32_StartupOnlyAfterAllChecks ==
  /\ flow.startups > 0 =>
        /\ flow.startups = 1
        /\ flow.commands = <<DebugStart>>
        /\ debugEnv.connection /\ debugEnv.ptf
        /\ debugEnv.remoteCerts /\ debugEnv.localCerts
        /\ flow.remoteProbes = 1 /\ flow.localProbes = 1
        /\ flow.messages = <<>>
        /\ commandQueue = <<>>
  /\ (flow.commands # <<>> /\ flow.commands[1] = DebugStart
         /\ (Len(flow.commands) > 1 \/ commandQueue # <<>>)) =>
        flow.startups = 0

C32_Witness ==
  /\ FlowEnded
  /\ flow.commands = <<DebugStart>>
  /\ flow.startups = 1

\* C37: a context key of the debug module is unset or true, and a step that
\* changes it sets it to true: a key that is true stays true, whatever the
\* probes, the generation and the download of later runs find.
C37_ContextsOnlySetTrue ==
  /\ [](\A key \in ContextKeys : contexts[key] \in {"unset", "true"})
  /\ [][\A key \in ContextKeys :
          contexts'[key] # contexts[key] => contexts'[key] = "true"]_vars

\* a run that found no remote certificates ended and the key is still true
C37_Witness ==
  /\ FlowEnded
  /\ flow.remoteProbes > 0
  /\ ~debugEnv.remoteCerts
  /\ contexts[remoteCertContext] = "true"
  /\ contexts[localCertContext] = "true"
  /\ ~debugEnv.localCerts

\* C38: a debug session is launched only by debug.activeEditor, once, with a
\* connection and a configuration, for a document of a member, streamfile or
\* file uri that gave a library and an object, and with a password taken from
\* the secret storage or typed into the prompt; a dismissed or empty prompt,
\* a missing connection or configuration and any other scheme launch nothing.
C38_LaunchNeedsPasswordAndObject ==
  flow.launches > 0 =>
    /\ flow.launches = 1
    /\ flow.commands = <<DebugActiveEditor>>
    /\ debugEnv.connection
    /\ flow.configured
    /\ ~flow.threw
    /\ flow.editor \in {"member", "streamfile", "file"}
    /\ flow.qualifiedPath.library # ""
    /\ flow.qualifiedPath.object # ""
    /\ flow.password \in {"secret", "typed"}
    /\ flow.password = "typed" <=> flow.messages = <<PasswordPrompt>>

\* the password was typed into the prompt and the session was launched
C38_Witness ==
  /\ FlowEnded
  /\ flow.launches = 1
  /\ flow.editor = "streamfile"
  /\ flow.password = "typed"

(***************************************************************************)
(*                 Further claims about ConfigFile (Part II)               *)
(***************************************************************************)
\* the condition of line 86 held in the get() that returned
MergePathTaken ==
  /\ getPc = "returned"
  /\ getResult.searched
  /\ mergeArrays
  /\ Truthy(workspaceConfig)
  /\ Truthy(serverData)

\* C33: get() reaches the merge of lines 87-94 only if a loadFromServer()
\* assigned this.serverData while the get() was suspended on findFiles or
\* readFile; a get() that no loadFromServer() overlapped returns the server
\* data it found at entry, without a look at the workspace, and when it found
\* none it returns the workspace document (validated if a validator is
\* supplied) or undefined.
C33_MergeNeedsOverlappingLoad ==
  /\ MergePathTaken =>
        /\ getEntry.overlap
        /\ getEntry.assigned
        /\ ~Truthy(getEntry.data)
        /\ getFolder
  /\ (getPc = "returned" /\ ~getEntry.overlap) =>
        /\ ~getEntry.assigned
        /\ Truthy(getEntry.data) =>
              /\ getResult.status = "value"
              /\ getResult.value = getEntry.data
              /\ ~getResult.searched
        /\ (getEntry.data = Undefined /\ getResult.status = "value") =>
              Raw(getResult.value) =
                 (IF Truthy(workspaceConfig) THEN Raw(workspaceConfig) ELSE Undefined)

\* the merge path was taken: the server copy was loaded while get() waited
C33_Witness ==
  /\ MergePathTaken
  /\ getEntry.assigned
  /\ getResult.status = "value"
  /\ getResult.value.kind = "array"

\* C34: whenever no call is running and getState().server is 'ok', the
\* server data is cached, so that get() returns the loaded server document.
C34_OkMeansCached ==
  (CallsIdle /\ getState.server = "ok") => Truthy(serverData)

\* C35: getState().workspace is always 'not_loaded' or 'ok'; it changes only
\* when get() has parsed the workspace file, and then to 'ok'; a get() that
\* found no workspace file or could not parse it leaves it alone, and the
\* parse failure is recorded as 'failed_to_parse' in getState().server.
C35_WorkspaceStatus ==
  /\ [](/\ getState.workspace \in {"not_loaded", "ok"}
        /\ (getPc = "returned" /\ getResult.searched /\ workspaceFile = Garbage) =>
              getState.server = "failed_to_parse")
  /\ [][state'.workspace # state.workspace =>
          /\ getPc = "readFile"
          /\ ~ParseThrows(workspaceFile)
          /\ state'.workspace = "ok"]_vars

C35_Witness ==
  /\ getPc = "returned"
  /\ getResult.searched
  /\ workspaceFile = Garbage
  /\ getState.workspace = "not_loaded"
  /\ getState.server = "failed_to_parse"

(***************************************************************************)
(*                  Further claims about withContext (Part V)              *)
(***************************************************************************)
\* C36: a call whose task threw is rejected, and not before it released the
\* context as lines 119-129 do on a normal return: with a counter above 0 the
\* counter is decremented, with the counter at 0 the context is unset and the
\* entry removed; once every call has settled, whether tasks threw or not,
\* the context is unset and activeContexts holds no entry.
C36_ThrowReleasesContext ==
  /\ [](/\ \A c \in Callers :
              /\ callerPc[c] = "rejected" => c \in thrown
              /\ callerPc[c] = "returned" => c \notin thrown
        /\ AllReturned => (contextValue = Unset /\ activeContexts = NoEntry))
  /\ [][\A c \in Callers :
          /\ (callerPc[c] = "task" /\ callerPc'[c] # "task" /\ c \in thrown') =>
                /\ contextValue' = contextValue
                /\ IF activeContexts = NoEntry
                     THEN activeContexts' = NoEntry /\ callerPc'[c] = "rejected"
                     ELSE IF activeContexts[1] # 0
                       THEN /\ activeContexts' = Entry(activeContexts[1] - 1)
                            /\ callerPc'[c] = "rejected"
                       ELSE /\ activeContexts' = activeContexts
                            /\ callerPc'[c] = "unsetContext"
          /\ (callerPc[c] = "unsetContext" /\ callerPc'[c] # "unsetContext"
                 /\ c \in thrown) =>
                /\ contextValue' = Unset
                /\ activeContexts' = NoEntry
                /\ callerPc'[c] = "rejected"]_vars

\* the task of the only caller threw, the call unset the context and was rejected
C36_Witness ==
  /\ \E c \in Callers :
        /\ callerPc[c] = "rejected"
        /\ unsetters = {c}
        /\ \A d \in Callers \ {c} : callerPc[d] = "idle"
  /\ contextValue = Unset
  /\ activeContexts = NoEntry

(***************************************************************************)
(*                  Claims about the colour checker (Part VII)             *)
(***************************************************************************)
\* C39: the content of an opened member document with invalid characters is
\* rewritten only if autoFixInvalidCharacters was set or the prompt was
\* answered 'Yes' or 'Always'; after 'No' or a dismissed prompt the content
\* is the one the document was opened with.
C39_RewriteNeedsConsent ==
  /\ check.edited =>
        \/ (check.config.loaded /\ check.config.autoFixInvalidCharacters)
        \/ check.chosen \in {"Yes", "Always"}
  /\ check.chosen \in {"No", "undefined"} =>
        /\ ~check.edited
        /\ colourDocument.content = check.content

(***************************************************************************)
(*               Claims about the '/connect' URI handler (Part VIII)       *)
(***************************************************************************)
\* C40: the setting `connections` never holds two entries with the same name.
C40_NoDuplicateNames ==
  \A i \in 1..Len(connections), j \in 1..Len(connections) :
     connections[i] = connections[j] => i = j

=============================================================================
